---- MODULE Spec2Model ----
(***************************************************************************)
(* vault-env: put, get, sync and run of the secrets CLI (internal/app,     *)
(* internal/utils, pkg/config, pkg/vault, pkg/cli).                         *)
(* A KV v2 record is a map from field names to                              *)
(* string values; strings are TLA+ strings, so that the ciphertext prefix   *)
(* test and the stdin newline trimming are computed as the code does.       *)
(***************************************************************************)
EXTENDS Integers, Sequences, FiniteSets, TLC

VARIABLES stored, lastPut, lastGet, nOps, kv, lastSync, outFile, configCall, fieldsPut, procs, twin, lastResolve, lastRun

vars == <<stored, lastPut, lastGet, nOps, kv, lastSync, outFile, configCall, fieldsPut, procs, twin, lastResolve, lastRun>>

\* what the specifications of put, get and sync leave alone
auxVars == <<configCall, fieldsPut, procs, twin, lastResolve, lastRun>>

\* the records at the config's paths, the sync that ran, the output file
syncVars == <<kv, lastSync, outFile>>

(***************************************************************************)
(* Bounds and input domains.                                               *)
(***************************************************************************)
\* number of CLI invocations in one behaviour
MaxOps == 2

\* --key flag values: the two sentinel names and two caller-chosen names
FieldNames == {"value", "ciphertext", "DB_HOST", "API_KEY"}

\* --value flag ("" = flag not given)
ValueFlags == {"", "new-key", "vault:v1:raw"}

\* what stdin holds when it is read
StdinContents == {"", "old\n"}

\* --encryption-key flag, ENCRYPTION_KEY and TRANSIT of the process environment
Environs ==
    { [flag |-> "",   ENCRYPTION_KEY |-> "",   TRANSIT |-> ""],
      [flag |-> "k1", ENCRYPTION_KEY |-> "",   TRANSIT |-> ""],
      [flag |-> "",   ENCRYPTION_KEY |-> "k1", TRANSIT |-> "false"],
      [flag |-> "",   ENCRYPTION_KEY |-> "",   TRANSIT |-> "true"] }

\* no --encryption-key flag, nothing set in the environment
PlainEnviron == [flag |-> "", ENCRYPTION_KEY |-> "", TRANSIT |-> ""]

\* the local file system: .env files as godotenv.Read parses them, raw files
EnvFiles ==
    [ a \in {"app.env"} |->
        [k \in {"DB_HOST", "DB_PORT"} |-> IF k = "DB_HOST" THEN "h" ELSE "5432"] ]

RawFiles == [ a \in {"cert.pem"} |-> "hi" ]

FromEnvFlags == {"", "app.env", "missing.env"}

FromFileFlags == {"", "cert.pem", "missing.pem"}

\* outcome of the backend read: served, or failed on the way (not a 404)
FetchFaults == {"none", "timeout"}

EmptyMap == [k \in {} |-> ""]

Absent == [exists |-> FALSE, data |-> EmptyMap]

Record(data) == [exists |-> TRUE, data |-> data]

(***************************************************************************)
(* internal/utils: classifier and merge                                    *)
(***************************************************************************)
HasPrefix(s, p) == Len(s) >= Len(p) /\ SubSeq(s, 1, Len(p)) = p

IsEncryptedSingleValue(data) ==
    IF Cardinality(DOMAIN data) # 1 THEN FALSE
    ELSE "ciphertext" \in DOMAIN data /\ HasPrefix(data["ciphertext"], "vault:v")

IsPlaintextSingleValue(data) ==
    IF Cardinality(DOMAIN data) # 1 THEN FALSE
    ELSE "value" \in DOMAIN data

IsEncryptedMultiValue(data) ==
    IF Cardinality(DOMAIN data) = 0 THEN FALSE
    ELSE \E k \in DOMAIN data : HasPrefix(data[k], "vault:v")

MergeData(existing, new) ==
    [k \in (DOMAIN existing) \cup (DOMAIN new) |->
        IF k \in DOMAIN new THEN new[k] ELSE existing[k]]

(***************************************************************************)
(* pkg/config: derivation of the transit key name                          *)
(***************************************************************************)
\* strings.ToLower, letter by letter
LowerChar(c) ==
    CASE c = "A" -> "a" [] c = "B" -> "b" [] c = "C" -> "c" [] c = "D" -> "d"
      [] c = "E" -> "e" [] c = "F" -> "f" [] c = "G" -> "g" [] c = "H" -> "h"
      [] c = "I" -> "i" [] c = "J" -> "j" [] c = "K" -> "k" [] c = "L" -> "l"
      [] c = "M" -> "m" [] c = "N" -> "n" [] c = "O" -> "o" [] c = "P" -> "p"
      [] c = "Q" -> "q" [] c = "R" -> "r" [] c = "S" -> "s" [] c = "T" -> "t"
      [] c = "U" -> "u" [] c = "V" -> "v" [] c = "W" -> "w" [] c = "X" -> "x"
      [] c = "Y" -> "y" [] c = "Z" -> "z"
      [] OTHER -> c

RECURSIVE LowerFrom(_, _)
LowerFrom(s, i) ==
    IF i > Len(s) THEN "" ELSE LowerChar(SubSeq(s, i, i)) \o LowerFrom(s, i + 1)

ToLower(s) == LowerFrom(s, 1)

\* IsTransitEnabled gone wrong: the value is compared as written
IsTransitEnabled_CaseSensitive(environ) ==
    environ.TRANSIT \in {"true", "1", "yes", "on", "enable", "enabled"}

IsTransitEnabled(environ) ==
    LET transit == ToLower(environ.TRANSIT)
    IN  CASE transit \in {"true", "1", "yes", "on", "enable", "enabled"} -> TRUE
          [] transit \in {"false", "0", "no", "off", "disable", "disabled"} -> FALSE
          [] OTHER -> FALSE

GetEncryptionKey(flagValue, environ) ==
    IF flagValue # "" THEN flagValue
    ELSE IF environ.ENCRYPTION_KEY # "" THEN environ.ENCRYPTION_KEY
    ELSE IF IsTransitEnabled(environ) THEN "app-secrets"
    ELSE ""

(***************************************************************************)
(* pkg/vault: the gateway.  A call is logged as [call, key, arg, ok].      *)
(***************************************************************************)
Call(name, key, arg, ok) == [call |-> name, key |-> key, arg |-> arg, ok |-> ok]

\* the ciphertext the transit engine returns for plaintext under keyName
Ciphertext(keyName, plaintext) == "vault:v1:" \o keyName \o ":" \o plaintext

\* TransitEncrypt: oracleOk is whether the backend call succeeds
TransitEncrypt(keyName, plaintext, oracleOk) ==
    IF keyName = "" THEN [err |-> "transit key name required", ciphertext |-> "", calls |-> <<>>]
    ELSE IF ~oracleOk
         THEN [err |-> "transit encrypt failed", ciphertext |-> "",
               calls |-> <<Call("TransitEncrypt", keyName, plaintext, FALSE)>>]
    ELSE [err |-> "", ciphertext |-> Ciphertext(keyName, plaintext),
          calls |-> <<Call("TransitEncrypt", keyName, plaintext, TRUE)>>]

\* KVGet: a read that fails, a path with no record, or the record's field map
KVGet(rec, fault) ==
    IF fault # "none" THEN [err |-> "kv get failed", data |-> EmptyMap]
    ELSE IF ~rec.exists THEN [err |-> "no data returned from vault", data |-> EmptyMap]
    ELSE [err |-> "", data |-> rec.data]

\* KVPut: the record after the write, or the unchanged record when it fails
KVPut(rec, data, writeOk) ==
    IF writeOk THEN [err |-> "", rec |-> Record(data)]
    ELSE [err |-> "kv put failed", rec |-> rec]

(***************************************************************************)
(* internal/utils: bulk loaders                                            *)
(***************************************************************************)
Base64Encode(content) ==
    CASE content = "" -> ""
      [] content = "hi" -> "aGk="

\* all orders in which a Go map range may visit the keys of m
RangeOrders(m) ==
    { s \in [1..Cardinality(DOMAIN m) -> DOMAIN m] :
        \A i, j \in 1..Cardinality(DOMAIN m) : i # j => s[i] # s[j] }

\* the loop of LoadEnvFile from its i-th key on; failAt = 0 when no call fails
RECURSIVE EnvLoop(_, _, _, _, _, _)
EnvLoop(envMap, order, i, keyName, failAt, acc) ==
    IF i > Len(order) THEN acc
    ELSE LET key == order[i]
             enc == TransitEncrypt(keyName, envMap[key], failAt # i)
         IN  IF enc.err # ""
             THEN [err |-> "encrypt " \o key, data |-> EmptyMap, calls |-> acc.calls \o enc.calls]
             ELSE EnvLoop(envMap, order, i + 1, keyName, failAt,
                          [err |-> "", calls |-> acc.calls \o enc.calls,
                           data |-> MergeData(acc.data, [k \in {key} |-> enc.ciphertext])])

\* LoadEnvFile gone wrong: a failed encrypt call does not fail the load
LoadEnvFile_IgnoresEncryptError(path, keyName, useEncryption, order, failAt) ==
    IF path \notin DOMAIN EnvFiles
    THEN [err |-> "failed to read .env file", data |-> EmptyMap, calls |-> <<>>]
    ELSE IF useEncryption
         THEN LET loaded == EnvLoop(EnvFiles[path], order, 1, keyName, failAt,
                                    [err |-> "", data |-> EmptyMap, calls |-> <<>>])
              IN  [err |-> "", data |-> loaded.data, calls |-> loaded.calls]
         ELSE [err |-> "", data |-> EnvFiles[path], calls |-> <<>>]

\* LoadEnvFile gone wrong: the values are stored as read, never encrypted
LoadEnvFile_StoresPlaintext(path, keyName, useEncryption, order, failAt) ==
    IF path \notin DOMAIN EnvFiles
    THEN [err |-> "failed to read .env file", data |-> EmptyMap, calls |-> <<>>]
    ELSE [err |-> "", data |-> EnvFiles[path], calls |-> <<>>]

LoadEnvFile(path, keyName, useEncryption, order, failAt) ==
    IF path \notin DOMAIN EnvFiles
    THEN [err |-> "failed to read .env file", data |-> EmptyMap, calls |-> <<>>]
    ELSE IF useEncryption
         THEN EnvLoop(EnvFiles[path], order, 1, keyName, failAt,
                      [err |-> "", data |-> EmptyMap, calls |-> <<>>])
         ELSE [err |-> "", data |-> EnvFiles[path], calls |-> <<>>]

LoadFileAsBase64(path, keyName, useEncryption, failAt) ==
    IF path \notin DOMAIN RawFiles
    THEN [err |-> "read file", data |-> EmptyMap, calls |-> <<>>]
    ELSE LET base64Content == Base64Encode(RawFiles[path])
         IN  IF useEncryption
             THEN LET enc == TransitEncrypt(keyName, base64Content, failAt # 1)
                  IN  IF enc.err # ""
                      THEN [err |-> "encrypt file content", data |-> EmptyMap, calls |-> enc.calls]
                      ELSE [err |-> "", calls |-> enc.calls,
                            data |-> [k \in {"ciphertext"} |-> enc.ciphertext]]
             ELSE [err |-> "", data |-> [k \in {"value"} |-> base64Content], calls |-> <<>>]

(***************************************************************************)
(* internal/app: App.Put                                                   *)
(***************************************************************************)
\* opts: [Key, Value, FromEnv, FromFile]; environ carries --encryption-key
\* in: what the outside world answers during this invocation
\*     [fault, stdin, order, failAt, writeOk]

\* the --value flag, or stdin without one trailing newline
PutSecretValue(opts, stdin) ==
    IF opts.Value # "" THEN opts.Value
    ELSE IF Len(stdin) > 0 /\ SubSeq(stdin, Len(stdin), Len(stdin)) = "\n"
         THEN SubSeq(stdin, 1, Len(stdin) - 1)
         ELSE stdin

\* existingData: any error of the read starts from empty data
PutExistingData(got) ==
    IF got.err # "" THEN EmptyMap ELSE got.data

\* PutBaseData gone wrong: a singleton is carried like any other record
PutBaseData_KeepsSingleton(existingData) ==
    MergeData(EmptyMap, existingData)

\* finalData before the new input is applied
PutBaseData(existingData) ==
    IF IsEncryptedSingleValue(existingData) \/ IsPlaintextSingleValue(existingData)
    THEN EmptyMap
    ELSE MergeData(EmptyMap, existingData)

\* PutFromEnv gone wrong: the loaded map replaces the record
PutFromEnv_Replaces(finalData, opts, keyName, useEncryption, in) ==
    LET loaded == LoadEnvFile(opts.FromEnv, keyName, useEncryption, in.order, in.failAt)
    IN  IF loaded.err # ""
        THEN [err |-> "load env file: " \o loaded.err, data |-> finalData, calls |-> loaded.calls]
        ELSE [err |-> "", data |-> loaded.data, calls |-> loaded.calls]

\* the from-env branch
PutFromEnv(finalData, opts, keyName, useEncryption, in) ==
    LET loaded == LoadEnvFile(opts.FromEnv, keyName, useEncryption, in.order, in.failAt)
    IN  IF loaded.err # ""
        THEN [err |-> "load env file: " \o loaded.err, data |-> finalData, calls |-> loaded.calls]
        ELSE [err |-> "", data |-> MergeData(finalData, loaded.data), calls |-> loaded.calls]

\* PutFromFile gone wrong: the file's field is merged into the record
PutFromFile_Merges(finalData, opts, keyName, useEncryption, in) ==
    LET loaded == LoadFileAsBase64(opts.FromFile, keyName, useEncryption, in.failAt)
    IN  IF loaded.err # ""
        THEN [err |-> "load file: " \o loaded.err, data |-> finalData, calls |-> loaded.calls]
        ELSE [err |-> "", data |-> MergeData(finalData, loaded.data), calls |-> loaded.calls]

\* the from-file branch
PutFromFile(finalData, opts, keyName, useEncryption, in) ==
    LET loaded == LoadFileAsBase64(opts.FromFile, keyName, useEncryption, in.failAt)
    IN  IF loaded.err # ""
        THEN [err |-> "load file: " \o loaded.err, data |-> finalData, calls |-> loaded.calls]
        ELSE [err |-> "", data |-> loaded.data, calls |-> loaded.calls]

\* --key given: the named field of finalData is set
PutKeyUpdate(finalData, key, value) ==
    MergeData(finalData, [k \in {key} |-> value])

\* PutFullValue gone wrong: the sentinel field is merged into the record
PutFullValue_Merges(finalData, sentinel, value) ==
    MergeData(finalData, [k \in {sentinel} |-> value])

\* no --key: finalData becomes the one sentinel field
PutFullValue(finalData, sentinel, value) ==
    [k \in {sentinel} |-> value]

\* the branch of --value / stdin, with or without --key
PutSingleValue(finalData, opts, keyName, useEncryption, in) ==
    LET secretValue == PutSecretValue(opts, in.stdin)
        enc == TransitEncrypt(keyName, secretValue, in.failAt # 1)
    IN  IF Len(secretValue) = 0
        THEN [err |-> "no secret value provided", data |-> finalData, calls |-> <<>>]
        ELSE IF useEncryption /\ enc.err # ""
        THEN [err |-> "transit encrypt: " \o enc.err, data |-> finalData, calls |-> enc.calls]
        ELSE IF opts.Key # ""
        THEN IF useEncryption
             THEN [err |-> "", calls |-> enc.calls,
                   data |-> PutKeyUpdate(finalData, opts.Key, enc.ciphertext)]
             ELSE [err |-> "", calls |-> <<>>,
                   data |-> PutKeyUpdate(finalData, opts.Key, secretValue)]
        ELSE IF useEncryption
             THEN [err |-> "", calls |-> enc.calls,
                   data |-> PutFullValue(finalData, "ciphertext", enc.ciphertext)]
             ELSE [err |-> "", calls |-> <<>>,
                   data |-> PutFullValue(finalData, "value", secretValue)]

\* Put: [err, calls, finalData, rec], rec being the record stored afterwards
AppPut(rec, opts, environ, in) ==
    LET effectiveEncryptionKey == GetEncryptionKey(environ.flag, environ)
        useEncryption == effectiveEncryptionKey # ""
        got == KVGet(rec, in.fault)
        getCall == <<Call("KVGet", "", "", got.err = "")>>
        finalData == PutBaseData(PutExistingData(got))
        new == IF opts.FromEnv # ""
               THEN PutFromEnv(finalData, opts, effectiveEncryptionKey, useEncryption, in)
               ELSE IF opts.FromFile # ""
               THEN PutFromFile(finalData, opts, effectiveEncryptionKey, useEncryption, in)
               ELSE PutSingleValue(finalData, opts, effectiveEncryptionKey, useEncryption, in)
        put == KVPut(rec, new.data, in.writeOk)
    IN  IF new.err # ""
        THEN [err |-> new.err, calls |-> getCall \o new.calls, finalData |-> new.data, rec |-> rec]
        ELSE IF put.err # ""
        THEN [err |-> "kv put: " \o put.err, finalData |-> new.data, rec |-> put.rec,
              calls |-> getCall \o new.calls \o <<Call("KVPut", "", "", FALSE)>>]
        ELSE [err |-> "", finalData |-> new.data, rec |-> put.rec,
              calls |-> getCall \o new.calls \o <<Call("KVPut", "", "", TRUE)>>]

(***************************************************************************)
(* pkg/vault and internal/utils: decryption, and what get prints           *)
(***************************************************************************)
\* TransitDecrypt: the engine opens under keyName exactly the ciphertexts it
\* made under keyName; oracleOk is whether the backend call succeeds otherwise
TransitDecrypt(keyName, ciphertext, oracleOk) ==
    LET prefix == "vault:v1:" \o keyName \o ":"
        opens == oracleOk /\ HasPrefix(ciphertext, prefix)
        b64 == IF opens THEN SubSeq(ciphertext, Len(prefix) + 1, Len(ciphertext)) ELSE ""
    IN  IF keyName = "" THEN [err |-> "transit key name required", plaintext |-> "", calls |-> <<>>]
        ELSE IF ~opens
        THEN [err |-> "transit decrypt failed", plaintext |-> "",
              calls |-> <<Call("TransitDecrypt", keyName, ciphertext, FALSE)>>]
        ELSE IF b64 = ""
        THEN [err |-> "plaintext missing in transit response", plaintext |-> "",
              calls |-> <<Call("TransitDecrypt", keyName, ciphertext, TRUE)>>]
        ELSE [err |-> "", plaintext |-> b64,
              calls |-> <<Call("TransitDecrypt", keyName, ciphertext, TRUE)>>]

\* the fields DecryptMultiValueData hands to the engine
EncryptedFields(data) == {k \in DOMAIN data : HasPrefix(data[k], "vault:v")}

\* the loop of DecryptMultiValueData over the prefixed fields, in range order
RECURSIVE DecryptLoop(_, _, _, _, _, _)
DecryptLoop(data, order, i, keyName, failAt, acc) ==
    IF i > Len(order) THEN acc
    ELSE LET k == order[i]
             dec == TransitDecrypt(keyName, data[k], failAt # i)
         IN  IF dec.err # ""
             THEN [err |-> "decrypt " \o k \o ": " \o dec.err, data |-> EmptyMap,
                   calls |-> acc.calls \o dec.calls]
             ELSE DecryptLoop(data, order, i + 1, keyName, failAt,
                              [err |-> "", calls |-> acc.calls \o dec.calls,
                               data |-> MergeData(acc.data, [x \in {k} |-> dec.plaintext])])

DecryptMultiValueData(data, keyName, order, failAt) ==
    DecryptLoop(data, order, 1, keyName, failAt,
                [err |-> "", calls |-> <<>>,
                 data |-> [k \in DOMAIN data \ EncryptedFields(data) |-> data[k]]])

\* standard output of an invocation: nothing, a bare text, a JSON document of
\* a map, or one KEY=VALUE line per field in any order
NoOutput == [kind |-> "none", text |-> "", data |-> EmptyMap, lines |-> {}]

PrintText(v) == [kind |-> "text", text |-> v, data |-> EmptyMap, lines |-> {}]

OutputJSON(data) == [kind |-> "json", text |-> "", data |-> data, lines |-> {}]

OutputEnvFormat(data) ==
    [kind |-> "env", text |-> "", data |-> EmptyMap,
     lines |-> {k \o "=" \o data[k] \o "\n" : k \in DOMAIN data}]

(***************************************************************************)
(* internal/app: Get                                                       *)
(***************************************************************************)
KeyRequired == "--encryption-key is required for encrypted secrets"

KeyNotFound(key) == "key \"" \o key \o "\" not found"

\* Get gone wrong: the ciphertext is handed to the engine before the key is looked at
GetSingleEncrypted_NoKeyCheck(data, key, in) ==
    LET dec == TransitDecrypt(key, data["ciphertext"], in.failAt # 1)
    IN  IF dec.err # ""
        THEN [err |-> "transit decrypt: " \o dec.err, stdout |-> NoOutput,
              calls |-> dec.calls]
        ELSE [err |-> "", stdout |-> PrintText(dec.plaintext), calls |-> dec.calls]

\* the record has a non-empty "ciphertext" field
GetSingleEncrypted(data, key, in) ==
    LET dec == TransitDecrypt(key, data["ciphertext"], in.failAt # 1)
    IN  IF key = "" THEN [err |-> KeyRequired, stdout |-> NoOutput, calls |-> <<>>]
        ELSE IF dec.err # ""
        THEN [err |-> "transit decrypt: " \o dec.err, stdout |-> NoOutput, calls |-> dec.calls]
        ELSE [err |-> "", stdout |-> PrintText(dec.plaintext), calls |-> dec.calls]

\* the record has a prefixed value and no "ciphertext" field
GetMultiEncrypted(data, opts, key, in) ==
    LET dec == DecryptMultiValueData(data, key, in.order, in.failAt)
    IN  IF key = "" THEN [err |-> KeyRequired, stdout |-> NoOutput, calls |-> <<>>]
        ELSE IF dec.err # ""
        THEN [err |-> "decrypt multi-value data: " \o dec.err, stdout |-> NoOutput,
              calls |-> dec.calls]
        ELSE IF opts.Key # ""
        THEN IF opts.Key \notin DOMAIN dec.data
             THEN [err |-> KeyNotFound(opts.Key), stdout |-> NoOutput, calls |-> dec.calls]
             ELSE [err |-> "", stdout |-> PrintText(dec.data[opts.Key]), calls |-> dec.calls]
        ELSE IF opts.OutputJSON
        THEN [err |-> "", stdout |-> OutputJSON(dec.data), calls |-> dec.calls]
        ELSE [err |-> "", stdout |-> OutputEnvFormat(dec.data), calls |-> dec.calls]

\* no value of the record is prefixed
GetPlaintext(data, opts) ==
    IF opts.Key # ""
    THEN IF opts.Key \notin DOMAIN data
         THEN [err |-> KeyNotFound(opts.Key), stdout |-> NoOutput, calls |-> <<>>]
         ELSE [err |-> "", stdout |-> PrintText(data[opts.Key]), calls |-> <<>>]
    ELSE IF Cardinality(DOMAIN data) = 1
    THEN [err |-> "", stdout |-> PrintText(data[CHOOSE k \in DOMAIN data : TRUE]), calls |-> <<>>]
    ELSE IF opts.OutputJSON
    THEN [err |-> "", stdout |-> OutputJSON(data), calls |-> <<>>]
    ELSE [err |-> "", stdout |-> OutputEnvFormat(data), calls |-> <<>>]

\* Get: [err, stdout, calls]
AppGet(rec, opts, environ, in) ==
    LET effectiveEncryptionKey == GetEncryptionKey(environ.flag, environ)
        got == KVGet(rec, in.fault)
        getCall == <<Call("KVGet", "", "", got.err = "")>>
        data == got.data
        hasCiphertext == "ciphertext" \in DOMAIN data
        out == IF hasCiphertext /\ data["ciphertext"] # ""
               THEN GetSingleEncrypted(data, effectiveEncryptionKey, in)
               ELSE IF IsEncryptedMultiValue(data)
               THEN GetMultiEncrypted(data, opts, effectiveEncryptionKey, in)
               ELSE GetPlaintext(data, opts)
    IN  IF got.err # ""
        THEN [err |-> "kv get: " \o got.err, stdout |-> NoOutput, calls |-> getCall]
        ELSE [err |-> out.err, stdout |-> out.stdout, calls |-> getCall \o out.calls]

(***************************************************************************)
(* pkg/config and internal/app: the config file and GenerateEnvFile (sync) *)
(***************************************************************************)
\* the paths config entries name
Paths == {"app/a", "app/b"}

\* Config.Transit is a pointer: nil when the file has no transit section
TransitSections ==
    { [present |-> FALSE, Key |-> ""],
      [present |-> TRUE,  Key |-> ""],
      [present |-> TRUE,  Key |-> "k1"] }

\* entries of the secrets list; the last one has no env_var
SecretEntries ==
    { [KVPath |-> p, EnvVar |-> IF p = "app/a" THEN "A_SECRET" ELSE "B_SECRET",
       Required |-> r] : p \in Paths, r \in BOOLEAN }
    \cup { [KVPath |-> "app/a", EnvVar |-> "", Required |-> FALSE] }

\* lists of one or two entries, the one without env_var only in front
SecretLists ==
    { <<e>> : e \in SecretEntries }
    \cup { <<e, f>> : e \in SecretEntries, f \in {g \in SecretEntries : g.EnvVar # ""} }

Configs == [Transit : TransitSections, Secrets : SecretLists]

\* NonEmpty: the first non-empty string of values, "" when there is none
RECURSIVE NonEmpty(_)
NonEmpty(values) ==
    IF values = <<>> THEN ""
    ELSE IF Head(values) # "" THEN Head(values)
    ELSE NonEmpty(Tail(values))

Outcome(status, value, calls) == [status |-> status, value |-> value, calls |-> calls]

\* the record is an encrypted singleton and a key name was found
DecryptSecret(encKeyForDecrypt, ciphertext) ==
    LET dec == TransitDecrypt(encKeyForDecrypt, ciphertext, TRUE)
    IN  IF encKeyForDecrypt = "" THEN Outcome("no-key", "", <<>>)
        ELSE IF dec.err # "" THEN Outcome("decrypt-failed", "", dec.calls)
        ELSE Outcome("resolved", dec.plaintext, dec.calls)

\* the shape test on the fetched data; cfg.Transit.Key is read through the
\* nil pointer when the config has no transit section
ResolveData(cfg, data, effectiveEncryptionKey) ==
    IF "ciphertext" \in DOMAIN data /\ HasPrefix(data["ciphertext"], "vault:v")
    THEN IF ~cfg.Transit.present THEN Outcome("panic", "", <<>>)
         ELSE DecryptSecret(NonEmpty(<<effectiveEncryptionKey, cfg.Transit.Key, "">>),
                            data["ciphertext"])
    ELSE IF "value" \in DOMAIN data THEN Outcome("resolved", data["value"], <<>>)
    ELSE IF Cardinality(DOMAIN data) > 1 THEN Outcome("multi-value", "", <<>>)
    ELSE Outcome("no-data", "", <<>>)

\* one round of the loop of GenerateEnvFile: what becomes of one entry
ResolveSecret(cfg, secret, rec, effectiveEncryptionKey, fault) ==
    LET got == KVGet(rec, fault)
    IN  IF secret.EnvVar = "" \/ secret.KVPath = "" THEN Outcome("invalid", "", <<>>)
        ELSE IF got.err # "" THEN Outcome("fetch-failed", "", <<>>)
        ELSE ResolveData(cfg, got.data, effectiveEncryptionKey)

\* OnFailure gone wrong: a failed required entry is skipped like an optional one
OnFailure_AlwaysContinues(secret) == "continue"

\* what the loop does with an entry that did not resolve
OnFailure(secret) == IF secret.Required THEN "return" ELSE "continue"

\* AddLine gone wrong: the line is put in front of the earlier ones
AddLine_Prepends(envLines, secret, secretValue) ==
    <<secret.EnvVar \o "=" \o secretValue>> \o envLines

\* envLines = append(envLines, "ENV_VAR=value")
AddLine(envLines, secret, secretValue) ==
    Append(envLines, secret.EnvVar \o "=" \o secretValue)

\* the loop's state after an entry with outcome r: stop is set when the
\* function returns or the process dies inside the body
LoopResult(secret, r, acc) ==
    [err |-> IF r.status \notin {"resolved", "panic", "invalid"}
                /\ OnFailure(secret) = "return"
             THEN "required secret: " \o r.status ELSE "",
     crashed |-> r.status = "panic",
     stop |-> \/ r.status = "panic"
              \/ r.status \notin {"resolved", "invalid"} /\ OnFailure(secret) = "return",
     trace |-> Append(acc.trace, r.status),
     envLines |-> IF r.status = "resolved"
                  THEN AddLine(acc.envLines, secret, r.value) ELSE acc.envLines,
     calls |-> acc.calls \o r.calls]

\* the loop over cfg.Secrets from entry i on; trace holds the outcome of
\* every entry the loop reached, in order
RECURSIVE GenLoop(_, _, _, _, _, _)
GenLoop(kvs, cfg, effectiveEncryptionKey, in, i, acc) ==
    IF i > Len(cfg.Secrets) \/ acc.stop THEN acc
    ELSE GenLoop(kvs, cfg, effectiveEncryptionKey, in, i + 1,
                 LoopResult(cfg.Secrets[i],
                            ResolveSecret(cfg, cfg.Secrets[i], kvs[cfg.Secrets[i].KVPath],
                                          effectiveEncryptionKey, in.faults[i]),
                            acc))

\* strings.Join(envLines, "\n")
RECURSIVE Join(_)
Join(envLines) ==
    IF envLines = <<>> THEN ""
    ELSE IF Len(envLines) = 1 THEN envLines[1]
    ELSE envLines[1] \o "\n" \o Join(Tail(envLines))

FileContent(envLines) == IF Len(envLines) > 0 THEN Join(envLines) \o "\n" ELSE ""

\* after the loop: the file is written only when the loop ran to its end
WriteEnvFile(loop, writeOk, file) ==
    [err |-> IF loop.crashed \/ loop.err # "" THEN loop.err
             ELSE IF ~writeOk THEN "write output file" ELSE "",
     crashed |-> loop.crashed, trace |-> loop.trace,
     envLines |-> loop.envLines, calls |-> loop.calls,
     file |-> IF loop.crashed \/ loop.err # "" \/ ~writeOk THEN file
              ELSE FileContent(loop.envLines)]

\* GenerateEnvFile: [err, crashed, trace, envLines, calls, file], file being
\* the content of the output file afterwards
GenerateEnvFile(kvs, cfg, encryptionKey, environ, in, file) ==
    IF ~in.configOk
    THEN [err |-> "load config: read config file", crashed |-> FALSE, trace |-> <<>>,
          envLines |-> <<>>, calls |-> <<>>, file |-> file]
    ELSE WriteEnvFile(GenLoop(kvs, cfg, GetEncryptionKey(encryptionKey, environ), in, 1,
                              [err |-> "", crashed |-> FALSE, stop |-> FALSE,
                               trace |-> <<>>, envLines |-> <<>>, calls |-> <<>>]),
                      in.writeOk, file)

(***************************************************************************)
(* pkg/cli: the put command                                                *)
(***************************************************************************)
PutOptions == [Key : {""} \cup FieldNames, Value : ValueFlags,
               FromEnv : FromEnvFlags, FromFile : FromFileFlags]

\* the command's validation of its flags, before App.Put is called
PutCommandAccepts(opts) ==
    LET inputCount == (IF opts.Value # "" THEN 1 ELSE 0) + (IF opts.FromEnv # "" THEN 1 ELSE 0)
                      + (IF opts.FromFile # "" THEN 1 ELSE 0)
    IN  /\ ~(inputCount > 1)
        /\ ~(opts.Key # "" /\ (opts.FromEnv # "" \/ opts.FromFile # ""))

\* the answers of the outside world that the invocation can meet
PutInputs(opts, environ) ==
    LET useEncryption == GetEncryptionKey(environ.flag, environ) # ""
        readsStdin == opts.Value = "" /\ opts.FromEnv = "" /\ opts.FromFile = ""
        envMap == IF opts.FromEnv \in DOMAIN EnvFiles THEN EnvFiles[opts.FromEnv] ELSE EmptyMap
        nCalls == IF ~useEncryption THEN 0
                  ELSE IF opts.FromEnv # "" THEN Cardinality(DOMAIN envMap)
                  ELSE 1
    IN  { in \in [fault : FetchFaults,
                  stdin : IF readsStdin THEN StdinContents ELSE {""},
                  order : IF useEncryption THEN RangeOrders(envMap) ELSE {<<>>},
                  failAt : 0..nCalls,
                  writeOk : BOOLEAN] : TRUE }

NoPut == [op |-> "none", opts |-> [Key |-> "", Value |-> "", FromEnv |-> "", FromFile |-> ""],
          environ |-> [flag |-> "", ENCRYPTION_KEY |-> "", TRANSIT |-> ""],
          fault |-> "none", stdin |-> "", before |-> Absent,
          err |-> "", calls |-> <<>>, finalData |-> EmptyMap]

(***************************************************************************)
(* pkg/cli: the get command, with --path                                   *)
(***************************************************************************)
GetOptions == [Key : {""} \cup FieldNames, OutputJSON : BOOLEAN]

\* the answers of the outside world that a get of rec can meet
GetInputs(rec, environ) ==
    LET key == GetEncryptionKey(environ.flag, environ)
        single == "ciphertext" \in DOMAIN rec.data /\ rec.data["ciphertext"] # ""
        encrypted == [k \in EncryptedFields(rec.data) |-> rec.data[k]]
        nCalls == IF key = "" THEN 0
                  ELSE IF single THEN 1
                  ELSE Cardinality(DOMAIN encrypted)
    IN  { in \in [fault : FetchFaults,
                  order : IF key # "" /\ ~single THEN RangeOrders(encrypted) ELSE {<<>>},
                  failAt : 0..nCalls] : TRUE }

NoGet == [op |-> "none", opts |-> [Key |-> "", OutputJSON |-> FALSE],
          environ |-> [flag |-> "", ENCRYPTION_KEY |-> "", TRANSIT |-> ""],
          fault |-> "none", failAt |-> 0, before |-> Absent,
          err |-> "", stdout |-> NoOutput, calls |-> <<>>]

(***************************************************************************)
(* pkg/cli: the sync command                                               *)
(***************************************************************************)
\* the puts that fill the config's paths: full value, one field, a .env file
SeedOptions ==
    { o \in PutOptions :
        /\ o.FromFile = ""
        /\ \/ o.Value = "new-key" /\ o.FromEnv = "" /\ o.Key \in {"", "value", "DB_HOST"}
           \/ o.Value = "" /\ o.FromEnv = "app.env" /\ o.Key = "" }

\* without a key, or with --encryption-key k1 on a put of the value sentinels
SeedEnvirons(opts) ==
    { e \in Environs :
        /\ e.ENCRYPTION_KEY = "" /\ e.TRANSIT = ""
        /\ e.flag # "" => (opts.FromEnv = "" /\ opts.Key \in {"", "value"}) }

\* sync has no --encryption-key flag
SyncEnvirons == { e \in Environs : e.flag = "" }

\* what the output file holds before the sync
InitialFile == "STALE=1\n"

\* the answers of the outside world that a sync under cfg can meet
SyncInputs(cfg) ==
    { in \in [configOk : BOOLEAN, faults : [1..Len(cfg.Secrets) -> FetchFaults],
              writeOk : BOOLEAN] :
        ~in.configOk => (in.writeOk /\ \A i \in DOMAIN in.faults : in.faults[i] = "none") }

NoSync == [op |-> "none",
           cfg |-> [Transit |-> [present |-> FALSE, Key |-> ""], Secrets |-> <<>>],
           environ |-> [flag |-> "", ENCRYPTION_KEY |-> "", TRANSIT |-> ""],
           err |-> "", crashed |-> FALSE, trace |-> <<>>, envLines |-> <<>>, calls |-> <<>>]

(***************************************************************************)
(* pkg/config and pkg/vault: connection settings and authentication.       *)
(***************************************************************************)
\* the environment variables GetVaultConfigFromEnv reads for authentication
VaultEnvirons ==
    [VAULT_ADDR : {"", "http://vault:8200"},
     VAULT_AUTH_METHOD : {"", "token", "approle", "github", "kubernetes", "AppRole", "ldap"},
     VAULT_TOKEN : {"", "s.token"},
     VAULT_ROLE_ID : {"", "role"},
     VAULT_SECRET_ID : {"", "secret"},
     VAULT_GITHUB_TOKEN : {"", "ghp"},
     VAULT_K8S_ROLE : {"", "k8s"}]

\* what the outside answers during authentication: the login request, the
\* service account token file
AuthAnswers == [loginOk : BOOLEAN, jwtOk : BOOLEAN]

GetVaultConfigFromEnv(env) ==
    [Addr |-> env.VAULT_ADDR,
     Token |-> env.VAULT_TOKEN,
     AuthMethod |-> ToLower(env.VAULT_AUTH_METHOD),
     RoleID |-> env.VAULT_ROLE_ID,
     SecretID |-> env.VAULT_SECRET_ID,
     GitHubToken |-> env.VAULT_GITHUB_TOKEN,
     K8sRole |-> env.VAULT_K8S_ROLE]

\* DetectAuthMethod gone wrong: GitHub is looked at before AppRole
DetectAuthMethod_GithubFirst(c) ==
    IF c.Token # "" THEN "token"
    ELSE IF c.GitHubToken # "" THEN "github"
    ELSE IF c.RoleID # "" /\ c.SecretID # "" THEN "approle"
    ELSE IF c.K8sRole # "" THEN "kubernetes"
    ELSE "token"

DetectAuthMethod(c) ==
    IF c.Token # "" THEN "token"
    ELSE IF c.RoleID # "" /\ c.SecretID # "" THEN "approle"
    ELSE IF c.GitHubToken # "" THEN "github"
    ELSE IF c.K8sRole # "" THEN "kubernetes"
    ELSE "token"

\* the error of the switch in Validate for a configuration whose method is set
ValidateMethod(c) ==
    CASE c.AuthMethod = "token" ->
            IF c.Token = "" THEN "VAULT_TOKEN is required" ELSE ""
      [] c.AuthMethod = "approle" ->
            IF c.RoleID = "" THEN "VAULT_ROLE_ID is required for AppRole auth"
            ELSE IF c.SecretID = "" THEN "VAULT_SECRET_ID is required for AppRole auth"
            ELSE ""
      [] c.AuthMethod = "github" ->
            IF c.GitHubToken = "" THEN "VAULT_GITHUB_TOKEN is required for GitHub auth" ELSE ""
      [] c.AuthMethod = "kubernetes" ->
            IF c.K8sRole = "" THEN "VAULT_K8S_ROLE is required for Kubernetes auth" ELSE ""
      [] OTHER -> "unsupported or auto-detected auth method: " \o c.AuthMethod

\* Validate: the error and the configuration as Validate leaves it
Validate(c) ==
    IF c.Addr = "" THEN [err |-> "VAULT_ADDR is required", cfg |-> c]
    ELSE IF c.AuthMethod = ""
         THEN [err |-> ValidateMethod([c EXCEPT !.AuthMethod = DetectAuthMethod(c)]),
               cfg |-> [c EXCEPT !.AuthMethod = DetectAuthMethod(c)]]
         ELSE [err |-> ValidateMethod(c), cfg |-> c]

\* a login request written to the backend at path
Login(path, arg, ok) ==
    [err |-> IF ok THEN "" ELSE "unable to login", calls |-> <<Call("Write", "", path, ok)>>]

authenticateAppRole(cfg, net) == Login("auth/approle/login", cfg.RoleID, net.loginOk)

authenticateGitHub(cfg, net) == Login("auth/github/login", cfg.GitHubToken, net.loginOk)

authenticateKubernetes(cfg, net) ==
    IF ~net.jwtOk THEN [err |-> "unable to read Kubernetes JWT token", calls |-> <<>>]
    ELSE Login("auth/kubernetes/login", cfg.K8sRole, net.loginOk)

authenticateVault(cfg, net) ==
    CASE cfg.AuthMethod = "token" ->
            [err |-> IF cfg.Token = "" THEN "token is required for token auth" ELSE "",
             calls |-> <<>>]
      [] cfg.AuthMethod = "approle" -> authenticateAppRole(cfg, net)
      [] cfg.AuthMethod = "github" -> authenticateGitHub(cfg, net)
      [] cfg.AuthMethod = "kubernetes" -> authenticateKubernetes(cfg, net)
      [] OTHER -> [err |-> "unsupported auth method: " \o cfg.AuthMethod, calls |-> <<>>]

\* the client NewClient builds from what Validate and authenticateVault return
ClientOf(v, auth) ==
    IF v.err # "" THEN [err |-> v.err, stage |-> "validate", method |-> v.cfg.AuthMethod,
                        calls |-> <<>>]
    ELSE IF auth.err # ""
         THEN [err |-> "authentication failed: " \o auth.err, stage |-> "authenticate",
               method |-> v.cfg.AuthMethod, calls |-> auth.calls]
         ELSE [err |-> "", stage |-> "ready", method |-> v.cfg.AuthMethod,
               calls |-> auth.calls]

NewClient(c, net) == ClientOf(Validate(c), authenticateVault(Validate(c).cfg, net))

\* the spellings of TRANSIT, the flag and ENCRYPTION_KEY a key is derived from
TransitSpellings ==
    {"", "true", "TRUE", "True", "tRuE", "1", "yes", "YES", "Yes", "on", "ON", "On",
     "enable", "ENABLE", "Enable", "enabled", "ENABLED", "eNaBlEd",
     "false", "FALSE", "0", "no", "off", "disable", "disabled",
     "maybe", "2", "tru", "truee", " true", "yes ", "y", "t", "enabledd"}

KeyEnvirons == [flag : {"", "flag-key"}, ENCRYPTION_KEY : {"", "env-key"},
                TRANSIT : TransitSpellings]

\* a call of one function of pkg/config or pkg/vault: its inputs, its result
ConfigCall(fn, environ, env, net) ==
    [fn |-> fn, environ |-> environ, env |-> env, net |-> net, done |-> FALSE,
     key |-> "", client |-> [err |-> "", stage |-> "none", method |-> "", calls |-> <<>>]]

NoCall ==
    ConfigCall("none", PlainEnviron,
               [VAULT_ADDR |-> "", VAULT_AUTH_METHOD |-> "", VAULT_TOKEN |-> "",
                VAULT_ROLE_ID |-> "", VAULT_SECRET_ID |-> "", VAULT_GITHUB_TOKEN |-> "",
                VAULT_K8S_ROLE |-> ""],
               [loginOk |-> TRUE, jwtOk |-> TRUE])

\* two put processes that run at the same time on one path
Procs == {"p1", "p2"}

\* the put processes before they start
IdleProcs ==
    [p \in Procs |->
        [pc |-> "start", opts |-> [Key |-> "", Value |-> "", FromEnv |-> "", FromFile |-> ""],
         fetched |-> Absent, others |-> {}, err |-> ""]]

\* the same path in two worlds, one written without encryption and one with
\* a key, and what a get printed in each
NoTwin == [plain |-> Absent, enc |-> Absent, got |-> FALSE,
           opts |-> [Key |-> "", OutputJSON |-> FALSE],
           plainOut |-> [err |-> "", stdout |-> NoOutput],
           encOut |-> [err |-> "", stdout |-> NoOutput]]

(***************************************************************************)
(* internal/app: the loaders of run                                        *)
(***************************************************************************)
\* the position of the first "=" of s from i on, 0 when there is none
RECURSIVE IndexEq(_, _)
IndexEq(s, i) ==
    IF i > Len(s) THEN 0
    ELSE IF SubSeq(s, i, i) = "=" THEN i
    ELSE IndexEq(s, i + 1)

\* strings.SplitN(s, "=", 2)
SplitN(s, at) ==
    IF at = 0 THEN <<s>> ELSE <<SubSeq(s, 1, at - 1), SubSeq(s, at + 1, Len(s))>>

\* strings.TrimSpace, for the blank
RECURSIVE TrimSpace(_)
TrimSpace(s) ==
    IF s = "" THEN s
    ELSE IF SubSeq(s, 1, 1) = " " THEN TrimSpace(SubSeq(s, 2, Len(s)))
    ELSE IF SubSeq(s, Len(s), Len(s)) = " " THEN TrimSpace(SubSeq(s, 1, Len(s) - 1))
    ELSE s

\* the record the backend holds at a path
RecordAt(kvs, path) == IF path \in DOMAIN kvs THEN kvs[path] ELSE Absent

\* the shape tests of loadInlineSecrets on the fetched data
InjectData(data, encryptionKey) ==
    IF "ciphertext" \in DOMAIN data /\ HasPrefix(data["ciphertext"], "vault:v")
    THEN DecryptSecret(encryptionKey, data["ciphertext"])
    ELSE IF "value" \in DOMAIN data THEN Outcome("resolved", data["value"], <<>>)
    ELSE IF Cardinality(DOMAIN data) = 1
    THEN Outcome("resolved", data[CHOOSE k \in DOMAIN data : TRUE], <<>>)
    ELSE Outcome("multi-value", "", <<>>)

\* the body of the loop of loadInlineSecrets for the parts of one item
ResolveParts(parts, kvs, encryptionKey, fault) ==
    IF Len(parts) # 2 THEN Outcome("bad-format", "", <<>>)
    ELSE IF TrimSpace(parts[1]) = "" \/ TrimSpace(parts[2]) = ""
    THEN Outcome("bad-format", "", <<>>)
    ELSE IF KVGet(RecordAt(kvs, TrimSpace(parts[2])), fault).err # ""
    THEN Outcome("fetch-failed", "", <<>>)
    ELSE InjectData(KVGet(RecordAt(kvs, TrimSpace(parts[2])), fault).data, encryptionKey)

ResolveInject(inject, kvs, encryptionKey, fault) ==
    ResolveParts(SplitN(inject, IndexEq(inject, 1)), kvs, encryptionKey, fault)

\* envVars[name] = value
SetVar(envVars, name, value) == MergeData(envVars, [k \in {name} |-> value])

\* the loop's state after the item with outcome r: any failure returns
InjectResult(inject, r, acc) ==
    [err |-> IF r.status # "resolved" THEN "inject: " \o r.status ELSE "",
     crashed |-> FALSE,
     stop |-> r.status # "resolved",
     trace |-> Append(acc.trace, r.status),
     envVars |-> IF r.status = "resolved" THEN SetVar(acc.envVars, TrimSpace(SplitN(inject, IndexEq(inject, 1))[1]),
                             r.value)
                 ELSE acc.envVars,
     calls |-> acc.calls \o r.calls]

NoneLoaded == [err |-> "", crashed |-> FALSE, stop |-> FALSE, trace |-> <<>>,
               envVars |-> EmptyMap, calls |-> <<>>]

RECURSIVE InjectLoop(_, _, _, _, _, _)
InjectLoop(injectSecrets, kvs, encryptionKey, faults, i, acc) ==
    IF i > Len(injectSecrets) \/ acc.stop THEN acc
    ELSE InjectLoop(injectSecrets, kvs, encryptionKey, faults, i + 1,
                    InjectResult(injectSecrets[i],
                                 ResolveInject(injectSecrets[i], kvs, encryptionKey, faults[i]),
                                 acc))

\* loadInlineSecrets: [err, crashed, stop, trace, envVars, calls]
loadInlineSecrets(injectSecrets, kvs, encryptionKey, faults) ==
    InjectLoop(injectSecrets, kvs, encryptionKey, faults, 1, NoneLoaded)

\* the state of the loop of loadSecretsFromConfig after an entry with outcome r
ConfigResult(secret, r, acc) ==
    [err |-> IF r.status \notin {"resolved", "panic", "invalid"}
                /\ OnFailure(secret) = "return"
             THEN "required secret: " \o r.status ELSE "",
     crashed |-> r.status = "panic",
     stop |-> \/ r.status = "panic"
              \/ r.status \notin {"resolved", "invalid"} /\ OnFailure(secret) = "return",
     trace |-> Append(acc.trace, r.status),
     envVars |-> IF r.status = "resolved" THEN SetVar(acc.envVars, secret.EnvVar, r.value)
                 ELSE acc.envVars,
     calls |-> acc.calls \o r.calls]

RECURSIVE ConfigLoop(_, _, _, _, _, _)
ConfigLoop(cfg, kvs, encryptionKey, faults, i, acc) ==
    IF i > Len(cfg.Secrets) \/ acc.stop THEN acc
    ELSE ConfigLoop(cfg, kvs, encryptionKey, faults, i + 1,
                    ConfigResult(cfg.Secrets[i],
                                 ResolveSecret(cfg, cfg.Secrets[i],
                                               RecordAt(kvs, cfg.Secrets[i].KVPath),
                                               encryptionKey, faults[i]),
                                 acc))

\* loadSecretsFromConfig: [err, crashed, stop, trace, envVars, calls]
loadSecretsFromConfig(cfg, kvs, encryptionKey, faults) ==
    ConfigLoop(cfg, kvs, encryptionKey, faults, 1, NoneLoaded)

\* one record resolved both ways: by --inject and by a required config entry
NoResolve == [op |-> "none", path |-> "", environ |-> PlainEnviron,
              transit |-> [present |-> TRUE, Key |-> ""], fault |-> "none",
              inject |-> NoneLoaded, config |-> NoneLoaded]

(***************************************************************************)
(* internal/app: Run                                                       *)
(***************************************************************************)
\* os.Environ() of the vault-env process
OsEnviron == <<"A_SECRET=inherited", "HOME=/root", "OPTS=a=b">>

\* the .env files --env-file can name, as godotenv.Read parses them
RunEnvFiles ==
    [ f \in {"run.env"} |->
        [k \in {"A_SECRET", "B_SECRET", "LOG"} |-> IF k = "LOG" THEN "debug" ELSE "from-file"] ]

RECURSIVE EnvironLoop(_, _, _)
EnvironLoop(environ, i, envVars) ==
    IF i > Len(environ) THEN envVars
    ELSE IF Len(SplitN(environ[i], IndexEq(environ[i], 1))) # 2
    THEN EnvironLoop(environ, i + 1, envVars)
    ELSE EnvironLoop(environ, i + 1,
                     SetVar(envVars, SplitN(environ[i], IndexEq(environ[i], 1))[1],
                            SplitN(environ[i], IndexEq(environ[i], 1))[2]))

loadEnvFileForRun(path) ==
    IF path \notin DOMAIN RunEnvFiles
    THEN [err |-> "failed to read .env file", envVars |-> EmptyMap]
    ELSE [err |-> "", envVars |-> RunEnvFiles[path]]

\* Overlay gone wrong: a name that is already set keeps its value
Overlay_KeepsEarlier(envVars, loaded) == MergeData(loaded, envVars)

\* for k, v := range loaded { envVars[k] = v }
Overlay(envVars, loaded) == MergeData(envVars, loaded)

\* the state of Run: the error it returns, the map it builds, what each
\* source contributed, how often the child was executed
RunStart(opts) ==
    [err |-> "", crashed |-> FALSE, stage |-> "start",
     envVars |-> IF opts.PreserveEnv THEN EnvironLoop(OsEnviron, 1, EmptyMap) ELSE EmptyMap,
     fromFile |-> EmptyMap, fromConfig |-> EmptyMap, fromInject |-> EmptyMap,
     configTrace |-> <<>>, injectTrace |-> <<>>,
     printed |-> FALSE, executions |-> 0, childEnv |-> EmptyMap, exit |-> 0]

Returned(run) == run.err # "" \/ run.crashed

\* Run up to the env-file
WithEnvFile(opts, run, file) ==
    IF opts.EnvFile = "" THEN run
    ELSE IF file.err # ""
    THEN [run EXCEPT !.err = "load env file: " \o file.err, !.stage = "env-file"]
    ELSE [run EXCEPT !.envVars = Overlay(@, file.envVars), !.fromFile = file.envVars]

\* Run up to the config entries
WithConfig(opts, run, configOk, loaded) ==
    IF Returned(run) \/ opts.ConfigFile = "" THEN run
    ELSE IF ~configOk
    THEN [run EXCEPT !.err = "load config: read config file", !.stage = "config"]
    ELSE IF loaded.crashed
    THEN [run EXCEPT !.crashed = TRUE, !.stage = "config", !.configTrace = loaded.trace]
    ELSE IF loaded.err # ""
    THEN [run EXCEPT !.err = "load secrets from config: " \o loaded.err,
                     !.stage = "config", !.configTrace = loaded.trace]
    ELSE [run EXCEPT !.envVars = Overlay(@, loaded.envVars), !.fromConfig = loaded.envVars,
                     !.configTrace = loaded.trace]

\* Run up to the --inject items
WithInject(opts, run, loaded) ==
    IF Returned(run) \/ Len(opts.InjectSecrets) = 0 THEN run
    ELSE IF loaded.err # ""
    THEN [run EXCEPT !.err = "load inline secrets: " \o loaded.err,
                     !.stage = "inject", !.injectTrace = loaded.trace]
    ELSE [run EXCEPT !.envVars = Overlay(@, loaded.envVars), !.fromInject = loaded.envVars,
                     !.injectTrace = loaded.trace, !.stage = "resolved"]

\* what becomes of the child: it runs and exits with 0, it runs and exits
\* with 1, it cannot be started
ChildOutcomes == {"exit-0", "exit-1", "not-started"}

executeCommand(run, child) ==
    CASE child = "exit-0" ->
            [run EXCEPT !.stage = "executed", !.executions = @ + 1, !.childEnv = run.envVars]
      [] child = "exit-1" ->
            [run EXCEPT !.stage = "executed", !.executions = @ + 1, !.childEnv = run.envVars,
                        !.exit = 1]
      [] OTHER ->
            [run EXCEPT !.stage = "executed", !.err = "command execution failed"]

\* the end of Run: the dry-run listing or the child
RunFinish(opts, run, child) ==
    IF Returned(run) THEN run
    ELSE IF opts.DryRun THEN [run EXCEPT !.printed = TRUE, !.stage = "dry-run"]
    ELSE executeCommand(run, child)

\* the fetches of one loader: the first one fails when the backend is down
\* for that loader
FetchesOf(items, down) ==
    [i \in DOMAIN items |-> IF down /\ i = 1 THEN "timeout" ELSE "none"]

\* Run before the child: the sources loaded and merged in order
RunResolve(opts, kvs, encryptionKey, world) ==
    WithInject(opts,
               WithConfig(opts,
                          WithEnvFile(opts, RunStart(opts), loadEnvFileForRun(opts.EnvFile)),
                          world.configOk,
                          loadSecretsFromConfig(world.cfg, kvs, encryptionKey,
                              FetchesOf(world.cfg.Secrets, world.down = "config"))),
               loadInlineSecrets(opts.InjectSecrets, kvs, encryptionKey,
                   FetchesOf(opts.InjectSecrets, world.down = "inject")))

(***************************************************************************)
(* pkg/cli: the run command                                                *)
(***************************************************************************)
\* the --inject lists: well formed, with blanks, one name twice, malformed
InjectLists ==
    {<<>>, <<"A_SECRET=app/a">>, <<"B_SECRET= app/b">>, <<"A_SECRET=app/a", "A_SECRET=app/b">>,
     <<"noequals">>, <<"B_SECRET=app/b", "=app/a">>}

\* the invocations of run: flags, and whether a command follows "--"
RunInvocations ==
    { inv \in [config : {"", "secrets.yaml"}, inject : InjectLists,
               envFile : {"", "run.env", "missing.env"}, dryRun : BOOLEAN,
               preserveEnv : BOOLEAN, hasCommand : BOOLEAN] :
        /\ ~inv.hasCommand =>
              (inv.config = "" /\ inv.inject = <<>> /\ inv.envFile = ""
               /\ ~inv.dryRun /\ inv.preserveEnv)
        /\ inv.envFile = "missing.env" => (~inv.dryRun /\ inv.preserveEnv)
        /\ ~inv.preserveEnv => ~inv.dryRun }

\* the secrets lists of the config file that run reads
RunSecretLists ==
    { <<[KVPath |-> "app/a", EnvVar |-> "A_SECRET", Required |-> TRUE]>>,
      <<[KVPath |-> "app/a", EnvVar |-> "A_SECRET", Required |-> FALSE],
        [KVPath |-> "app/b", EnvVar |-> "B_SECRET", Required |-> TRUE]>>,
      <<[KVPath |-> "app/a", EnvVar |-> "", Required |-> FALSE],
        [KVPath |-> "app/b", EnvVar |-> "A_SECRET", Required |-> FALSE]>> }

RunConfigs == [Transit : TransitSections, Secrets : RunSecretLists]

\* the key environments of run: none, --encryption-key k1, TRANSIT=true
RunEnvirons == { e \in Environs : e.ENCRYPTION_KEY = "" }

\* configFile as the command's action settles it
RunConfigFile(inv, defaultExists) ==
    IF inv.config = "" /\ Len(inv.inject) = 0 /\ defaultExists THEN "vault-env.yaml"
    ELSE inv.config

RunOptions(inv, defaultExists) ==
    [ConfigFile |-> RunConfigFile(inv, defaultExists), InjectSecrets |-> inv.inject,
     EnvFile |-> inv.envFile, DryRun |-> inv.dryRun, PreserveEnv |-> inv.preserveEnv]

\* the answers of the outside world that the invocation can meet
RunWorlds(inv) ==
    { w \in [cfg : RunConfigs, configOk : BOOLEAN, defaultExists : BOOLEAN,
             down : {"none", "config", "inject"}] :
        /\ (inv.config # "" \/ Len(inv.inject) > 0) => w.defaultExists
        /\ RunConfigFile(inv, w.defaultExists) = "" =>
              (w.cfg = CHOOSE c \in RunConfigs : TRUE) /\ w.configOk /\ w.down # "config"
        /\ ~w.configOk => (w.cfg = CHOOSE c \in RunConfigs : TRUE) /\ w.down = "none"
        /\ Len(inv.inject) = 0 => w.down # "inject"
        /\ ~inv.hasCommand => w.down = "none" }

\* the command's action before App.Run is called
RunCommandError(inv, defaultExists) ==
    IF RunConfigFile(inv, defaultExists) = "" /\ Len(inv.inject) = 0
    THEN "either --config, vault-env.yaml file, or --inject must be specified"
    ELSE IF ~inv.hasCommand THEN "command to run is required"
    ELSE ""

\* the records the paths hold when run starts, as earlier puts left them
RunRecordsA ==
    {Absent,
     Record([k \in {"value"} |-> "v1"]),
     Record([k \in {"ciphertext"} |-> "vault:v1:k1:s1"]),
     Record([k \in {"DB_HOST"} |-> "h"]),
     Record([k \in {"DB_HOST", "DB_PORT"} |-> IF k = "DB_HOST" THEN "h" ELSE "5432"]),
     Record([k \in {"DB_HOST", "value"} |-> IF k = "DB_HOST" THEN "h" ELSE "v1"])}

RunRecordsB ==
    {Absent, Record([k \in {"value"} |-> "v2"]),
     Record([k \in {"ciphertext"} |-> "vault:v1:k1:s2"])}

NoRun == [op |-> "none",
          inv |-> [config |-> "", inject |-> <<>>, envFile |-> "", dryRun |-> FALSE,
                   preserveEnv |-> TRUE, hasCommand |-> FALSE],
          environ |-> PlainEnviron,
          cfg |-> [Transit |-> [present |-> FALSE, Key |-> ""], Secrets |-> <<>>],
          opts |-> [ConfigFile |-> "", InjectSecrets |-> <<>>, EnvFile |-> "",
                    DryRun |-> FALSE, PreserveEnv |-> TRUE],
          usage |-> "",
          out |-> RunStart([PreserveEnv |-> FALSE])]

\* nothing stored, nothing invoked
InitStore ==
    /\ stored = Absent
    /\ lastPut = NoPut
    /\ lastGet = NoGet
    /\ nOps = 0
    /\ kv = [p \in Paths |-> Absent]
    /\ lastSync = NoSync
    /\ outFile = InitialFile

Init ==
    /\ InitStore
    /\ lastRun = NoRun
    /\ lastResolve = NoResolve
    /\ twin = NoTwin
    /\ procs = IdleProcs
    /\ fieldsPut = EmptyMap
    /\ configCall = NoCall

\* one put invocation, from the command's action to the return of App.Put
Put ==
    \E opts \in PutOptions, environ \in Environs :
        /\ lastPut.op = "none"
        /\ lastGet.op = "none"
        /\ nOps < MaxOps
        /\ PutCommandAccepts(opts)
        /\ \E in \in PutInputs(opts, environ) :
            LET out == AppPut(stored, opts, environ, in)
            IN  /\ stored' = out.rec
                /\ lastPut' = [op |-> "put", opts |-> opts, environ |-> environ,
                               fault |-> in.fault, stdin |-> in.stdin, before |-> stored,
                               err |-> out.err, calls |-> out.calls,
                               finalData |-> out.finalData]
                /\ nOps' = nOps + 1
                /\ UNCHANGED <<lastGet, syncVars, auxVars>>

\* one get invocation, from the command's action to the return of App.Get
Get ==
    \E opts \in GetOptions, environ \in Environs :
        /\ lastPut.op = "none"
        /\ lastGet.op = "none"
        /\ nOps < MaxOps
        /\ \E in \in GetInputs(stored, environ) :
            LET out == AppGet(stored, opts, environ, in)
            IN  lastGet' = [op |-> "get", opts |-> opts, environ |-> environ,
                            fault |-> in.fault, failAt |-> in.failAt, before |-> stored,
                            err |-> out.err, stdout |-> out.stdout, calls |-> out.calls]
        /\ nOps' = nOps + 1
        /\ UNCHANGED <<stored, lastPut, syncVars, auxVars>>

\* the process ends: nothing of the invocation outlives it but the stored record
Exit ==
    /\ lastPut.op # "none" \/ lastGet.op # "none"
    /\ lastPut' = NoPut
    /\ lastGet' = NoGet
    /\ UNCHANGED <<stored, nOps, syncVars, auxVars>>

Next == Put \/ Get \/ Exit

Spec == Init /\ [][Next]_vars

\* a get of the path issued right after a put of it has returned success
GetBack ==
    \E opts \in GetOptions, environ \in Environs :
        /\ lastPut.op = "put" /\ lastPut.err = ""
        /\ lastGet.op = "none"
        /\ \E in \in GetInputs(stored, environ) :
            LET out == AppGet(stored, opts, environ, in)
            IN  lastGet' = [op |-> "get", opts |-> opts, environ |-> environ,
                            fault |-> in.fault, failAt |-> in.failAt, before |-> stored,
                            err |-> out.err, stdout |-> out.stdout, calls |-> out.calls]
        /\ UNCHANGED <<stored, lastPut, nOps, syncVars, auxVars>>

NextRoundTrip == Put \/ GetBack

\* a put of an empty path followed by a get of it
SpecRoundTrip == Init /\ [][NextRoundTrip]_vars

\* a put that fills one of the config's paths, every backend call succeeding
SeedPut ==
    \E p \in Paths, opts \in SeedOptions : \E environ \in SeedEnvirons(opts) :
        /\ lastSync.op = "none"
        /\ nOps < MaxOps
        /\ PutCommandAccepts(opts)
        /\ \E in \in PutInputs(opts, environ) :
            /\ in.fault = "none" /\ in.failAt = 0 /\ in.writeOk
            /\ kv' = [kv EXCEPT ![p] = AppPut(kv[p], opts, environ, in).rec]
        /\ nOps' = nOps + 1
        /\ UNCHANGED <<stored, lastPut, lastGet, lastSync, outFile, auxVars>>

\* one sync invocation, from the command's action to the end of the process
Sync ==
    \E cfg \in Configs, environ \in SyncEnvirons :
        /\ lastSync.op = "none"
        /\ \E in \in SyncInputs(cfg) :
            LET out == GenerateEnvFile(kv, cfg, "", environ, in, outFile)
            IN  /\ lastSync' = [op |-> "sync", cfg |-> cfg, environ |-> environ,
                                err |-> out.err, crashed |-> out.crashed,
                                trace |-> out.trace, envLines |-> out.envLines,
                                calls |-> out.calls]
                /\ outFile' = out.file
        /\ UNCHANGED <<stored, lastPut, lastGet, nOps, kv, auxVars>>

NextSync == SeedPut \/ Sync

\* puts that fill the config's paths, then one sync
SpecSync == Init /\ [][NextSync]_vars

(***************************************************************************)
(* Vocabulary of the properties, over the invocation that has returned     *)
(***************************************************************************)
PutReturned == lastPut.op = "put"

\* a KVPut call was issued by the invocation
WriteIssued == \E i \in DOMAIN lastPut.calls : lastPut.calls[i].call = "KVPut"

\* the invocation returned no error, so its KVPut stored the final data
Wrote == PutReturned /\ lastPut.err = "" /\ stored = Record(lastPut.finalData)

FieldTargeted == PutReturned /\ lastPut.opts.Key # ""

FullValuePut ==
    /\ PutReturned
    /\ lastPut.opts.Key = "" /\ lastPut.opts.FromEnv = "" /\ lastPut.opts.FromFile = ""

FromEnvPut == PutReturned /\ lastPut.opts.FromEnv # ""

FromFilePut == PutReturned /\ lastPut.opts.FromFile # ""

\* the transit key name of the encryption context, "" when there is none
ContextKey ==
    IF lastPut.environ.flag # "" THEN lastPut.environ.flag
    ELSE IF lastPut.environ.ENCRYPTION_KEY # "" THEN lastPut.environ.ENCRYPTION_KEY
    ELSE IF lastPut.environ.TRANSIT = "true" THEN "app-secrets"
    ELSE ""

\* the value the caller supplied inline or on stdin
SuppliedValue ==
    IF lastPut.opts.Value # "" THEN lastPut.opts.Value
    ELSE IF lastPut.stdin = "old\n" THEN "old"
    ELSE lastPut.stdin

\* how a supplied plaintext is to be stored under the context
AsStored(plaintext) ==
    IF ContextKey = "" THEN plaintext ELSE Ciphertext(ContextKey, plaintext)

\* exactly one field, keyed "value", or keyed "ciphertext" with a ciphertext
SentinelSingleton(data) ==
    /\ Cardinality(DOMAIN data) = 1
    /\ \/ "value" \in DOMAIN data
       \/ "ciphertext" \in DOMAIN data /\ HasPrefix(data["ciphertext"], "vault:v")

\* the record at the path before the invocation, as a field map
ExistingData == IF lastPut.before.exists THEN lastPut.before.data ELSE EmptyMap

\* the field map the .env loader produces under the context
LoadedEnv ==
    IF lastPut.opts.FromEnv \in DOMAIN EnvFiles
    THEN [k \in DOMAIN EnvFiles[lastPut.opts.FromEnv] |->
             AsStored(EnvFiles[lastPut.opts.FromEnv][k])]
    ELSE EmptyMap

(***************************************************************************)
(* Field-targeted put                                                      *)
(***************************************************************************)
\* C1: a put --key K --value v onto an existing record that is no sentinel
\* singleton writes the existing record with only field K added or replaced:
\* every other field keeps its name and value, and K holds v or its ciphertext.
C1_FieldPutPreservesSiblings ==
    (FieldTargeted /\ Wrote /\ lastPut.before.exists
        /\ ~SentinelSingleton(lastPut.before.data)) =>
        LET K == lastPut.opts.Key
            old == lastPut.before.data
            new == lastPut.finalData
        IN  /\ DOMAIN new = (DOMAIN old) \cup {K}
            /\ \A f \in (DOMAIN old) \ {K} : new[f] = old[f]
            /\ new[K] = AsStored(SuppliedValue)

\* C2: a put --key K --value v onto a sentinel singleton writes a record whose
\* only field is K (holding v or its ciphertext); the singleton's field is gone.
C2_FieldPutDropsSentinel ==
    (FieldTargeted /\ WriteIssued /\ lastPut.before.exists
        /\ SentinelSingleton(lastPut.before.data)) =>
        /\ DOMAIN lastPut.finalData = {lastPut.opts.Key}
        /\ lastPut.finalData[lastPut.opts.Key] = AsStored(SuppliedValue)
        /\ \A f \in DOMAIN lastPut.before.data :
              f # lastPut.opts.Key => f \notin DOMAIN lastPut.finalData

\* C2 witness: the singleton was fetched, K is another name, and K was written
\* as a ciphertext
C2_Witness ==
    /\ FieldTargeted /\ WriteIssued /\ lastPut.err = ""
    /\ lastPut.fault = "none" /\ lastPut.before.exists
    /\ SentinelSingleton(lastPut.before.data)
    /\ lastPut.opts.Key \notin DOMAIN lastPut.before.data
    /\ ContextKey # ""
    /\ stored.data = lastPut.finalData

(***************************************************************************)
(* Full-value put                                                          *)
(***************************************************************************)
\* C3: a put with no field name and no bulk source writes exactly
\* {"value": v} without a context and {"ciphertext": encrypt(v)} with one,
\* whatever the existing record held.
C3_FullValuePutResets ==
    (FullValuePut /\ WriteIssued) =>
        lastPut.finalData =
            IF ContextKey = "" THEN [k \in {"value"} |-> SuppliedValue]
            ELSE [k \in {"ciphertext"} |-> Ciphertext(ContextKey, SuppliedValue)]

\* C3 witness: the reset replaced a fetched record of several fields
C3_Witness ==
    /\ FullValuePut /\ WriteIssued /\ lastPut.err = ""
    /\ lastPut.fault = "none" /\ lastPut.before.exists
    /\ Cardinality(DOMAIN lastPut.before.data) >= 2
    /\ stored.data = lastPut.finalData

(***************************************************************************)
(* Put and the backend calls it makes                                      *)
(***************************************************************************)
\* C4: a put issues at most one KVPut, and only after every TransitEncrypt
\* call of the invocation has succeeded; when an encrypt call fails the put
\* returns an error, issues no KVPut and leaves the stored record unchanged.
C4_PutAllOrNothing ==
    PutReturned =>
        LET calls == lastPut.calls
            puts == {i \in DOMAIN calls : calls[i].call = "KVPut"}
            encs == {i \in DOMAIN calls : calls[i].call = "TransitEncrypt"}
        IN  /\ Cardinality(puts) <= 1
            /\ \A i \in puts : \A j \in encs : j < i /\ calls[j].ok
            /\ (\E j \in encs : ~calls[j].ok) =>
                  /\ lastPut.err # ""
                  /\ puts = {}
                  /\ stored = lastPut.before

\* C4 witness: a from-env put onto an existing record whose second encrypt
\* call failed after the first had succeeded
C4_Witness ==
    /\ FromEnvPut /\ lastPut.before.exists
    /\ \E i, j \in DOMAIN lastPut.calls :
          /\ i < j
          /\ lastPut.calls[i].call = "TransitEncrypt" /\ lastPut.calls[i].ok
          /\ lastPut.calls[j].call = "TransitEncrypt" /\ ~lastPut.calls[j].ok
    /\ lastPut.err # ""

\* C5: when the read of the existing record fails for another reason than
\* the record being absent, put returns an error and issues no write.
C5_FetchFailureIsSurfaced ==
    (PutReturned /\ lastPut.fault # "none") =>
        /\ lastPut.err # ""
        /\ ~WriteIssued

(***************************************************************************)
(* Bulk loads                                                              *)
(***************************************************************************)
\* C6: put --from-env writes the loaded fields over the existing record: all
\* loaded fields with the file's values and all existing fields the file does
\* not name; onto a sentinel singleton it writes exactly the loaded map.
C6_FromEnvMergesWithExisting ==
    (FromEnvPut /\ Wrote) =>
        IF SentinelSingleton(ExistingData)
        THEN lastPut.finalData = LoadedEnv
        ELSE lastPut.finalData =
                [k \in (DOMAIN ExistingData) \cup (DOMAIN LoadedEnv) |->
                    IF k \in DOMAIN LoadedEnv THEN LoadedEnv[k] ELSE ExistingData[k]]

C8_FromFileWritesSingleton ==
    (FromFilePut /\ WriteIssued) =>
        /\ lastPut.opts.FromFile = "cert.pem"
        /\ lastPut.finalData =
              IF ContextKey = "" THEN [k \in {"value"} |-> "aGk="]
              ELSE [k \in {"ciphertext"} |-> Ciphertext(ContextKey, "aGk=")]

\* C8 witness: the file was stored over a fetched record of several fields
C8_Witness ==
    /\ FromFilePut /\ Wrote
    /\ lastPut.fault = "none" /\ lastPut.before.exists
    /\ Cardinality(DOMAIN lastPut.before.data) >= 2

(***************************************************************************)
(* Encryption policy                                                       *)
(***************************************************************************)
\* the fields this invocation supplies, each with the plaintext supplied
SuppliedFields ==
    IF FromEnvPut THEN
        (IF lastPut.opts.FromEnv \in DOMAIN EnvFiles
         THEN EnvFiles[lastPut.opts.FromEnv] ELSE EmptyMap)
    ELSE IF FromFilePut THEN
        [k \in {IF ContextKey = "" THEN "value" ELSE "ciphertext"} |-> "aGk="]
    ELSE IF FieldTargeted THEN [k \in {lastPut.opts.Key} |-> SuppliedValue]
    ELSE [k \in {IF ContextKey = "" THEN "value" ELSE "ciphertext"} |-> SuppliedValue]

\* C9: with an encryption context every value supplied by the put is written
\* as the output of a successful TransitEncrypt call on it and never as the
\* plaintext, and every other written field is a field of the existing record
\* with the same value; without a context no TransitEncrypt call is made.
C9_PerCallEncryption ==
    PutReturned =>
        LET calls == lastPut.calls
            encs == {i \in DOMAIN calls : calls[i].call = "TransitEncrypt"}
        IN  /\ ContextKey = "" => encs = {}
            /\ (ContextKey # "" /\ WriteIssued) =>
                  \A f \in DOMAIN SuppliedFields :
                      /\ f \in DOMAIN lastPut.finalData
                      /\ lastPut.finalData[f] # SuppliedFields[f]
                      /\ lastPut.finalData[f] = Ciphertext(ContextKey, SuppliedFields[f])
                      /\ \E i \in encs : /\ calls[i].ok
                                         /\ calls[i].key = ContextKey
                                         /\ calls[i].arg = SuppliedFields[f]
            /\ WriteIssued =>
                  \A f \in (DOMAIN lastPut.finalData) \ (DOMAIN SuppliedFields) :
                      f \in DOMAIN ExistingData /\ lastPut.finalData[f] = ExistingData[f]
            /\ Cardinality(encs) <= Cardinality(DOMAIN SuppliedFields)

\* C9 witness: an encrypting from-env put stored its ciphertexts next to a
\* plaintext field and a ciphertext field carried over from the record
C9_Witness ==
    /\ FromEnvPut /\ Wrote /\ ContextKey # ""
    /\ \E f \in (DOMAIN stored.data) \ (DOMAIN SuppliedFields) :
          stored.data[f] = ExistingData[f]
    /\ \A f \in DOMAIN SuppliedFields :
          stored.data[f] = Ciphertext(ContextKey, SuppliedFields[f])

(***************************************************************************)
(* Shape of the record a field-targeted put creates                        *)
(***************************************************************************)
\* C10: without an encryption context, a put --key k --value v onto an
\* absent or empty record writes {k: v}, and the classifier gives that record
\* the multi-value plaintext shape: none of the single-value and encrypted
\* predicates holds of it.
C10_FieldPutIsMultiValuePlaintext ==
    (FieldTargeted /\ Wrote /\ ContextKey = "" /\ ExistingData = EmptyMap) =>
        /\ lastPut.finalData = [k \in {lastPut.opts.Key} |-> SuppliedValue]
        /\ ~IsPlaintextSingleValue(lastPut.finalData)
        /\ ~IsEncryptedSingleValue(lastPut.finalData)
        /\ ~IsEncryptedMultiValue(lastPut.finalData)

(***************************************************************************)
(* The shape classifier on the record a path holds                         *)
(***************************************************************************)
ShapesOf(data) ==
    {s \in {"encrypted-single", "plaintext-single", "encrypted-multi"} :
        \/ s = "encrypted-single" /\ IsEncryptedSingleValue(data)
        \/ s = "plaintext-single" /\ IsPlaintextSingleValue(data)
        \/ s = "encrypted-multi"  /\ IsEncryptedMultiValue(data)}

\* C11: on every map a path can hold, the empty map included, the three
\* classifier predicates are defined and at most one of them is true.
\* Violated: the map {"ciphertext": "vault:v1:k1:new-key"} written by an
\* encrypted full-value put is both an encrypted singleton and encrypted multi.
C11_AtMostOneShape ==
    Cardinality(ShapesOf(stored.data)) <= 1

(***************************************************************************)
(* Get                                                                     *)
(***************************************************************************)
GetReturned == lastGet.op = "get"

\* the transit key name get resolves from its flag and environment
GetKey == GetEncryptionKey(lastGet.environ.flag, lastGet.environ)

\* the backend served every call of the get
GetUnhindered == GetReturned /\ lastGet.fault = "none" /\ lastGet.failAt = 0

\* C13: a successful put of a non-empty inline value v with no field name,
\* followed by a get with no field name, prints exactly v, both when neither
\* call has a transit key and when both have the same one.
\* Violated: v = "vault:v1:raw" put and got with no key is stored as
\* {"value": "vault:v1:raw"}, which get takes for encrypted data.
C13_PutGetRoundTrip ==
    (/\ FullValuePut /\ Wrote /\ lastPut.opts.Value # ""
     /\ GetUnhindered /\ lastGet.opts.Key = ""
     /\ GetKey = ContextKey) =>
        /\ lastGet.err = ""
        /\ lastGet.stdout = PrintText(lastPut.opts.Value)

\* the record the get read
GotData == lastGet.before.data

\* C14: get --key K on a fetched record prints exactly the plaintext of field
\* K when K is a field of the record (decrypted under the get's key when the
\* field holds a ciphertext that key opens), and otherwise fails with the
\* key-not-found error naming K and prints nothing.
\* Violated: on {"ciphertext": "vault:v1:k1:new-key"} get --key DB_HOST with
\* key k1 prints new-key, the field name being ignored.
C14_GetFieldByName ==
    (GetUnhindered /\ lastGet.opts.Key # "" /\ lastGet.before.exists) =>
        LET K == lastGet.opts.Key
            want == IF HasPrefix(GotData[K], "vault:v")
                    THEN TransitDecrypt(GetKey, GotData[K], TRUE)
                    ELSE [err |-> "", plaintext |-> GotData[K], calls |-> <<>>]
        IN  IF K \in DOMAIN GotData
            THEN want.err = "" =>
                    /\ lastGet.err = ""
                    /\ lastGet.stdout = PrintText(want.plaintext)
            ELSE /\ lastGet.err = KeyNotFound(K)
                 /\ lastGet.stdout = NoOutput

\* C15: a get of a fetched record holding ciphertext (an encrypted singleton
\* or at least one prefixed field) with no transit key from the flag, the
\* environment or the TRANSIT default fails with the key-required error,
\* makes no decrypt call and prints nothing.
C15_GetWithoutKeyFails ==
    (/\ GetReturned /\ lastGet.fault = "none" /\ lastGet.before.exists
     /\ EncryptedFields(GotData) # {}
     /\ GetKey = "") =>
        /\ lastGet.err = KeyRequired
        /\ lastGet.stdout = NoOutput
        /\ \A i \in DOMAIN lastGet.calls : lastGet.calls[i].call # "TransitDecrypt"

\* C15 witness: a record of several encrypted fields was got without a key
C15_Witness ==
    /\ GetReturned /\ lastGet.fault = "none" /\ lastGet.before.exists
    /\ Cardinality(EncryptedFields(GotData)) >= 2
    /\ GetKey = ""
    /\ lastGet.err = KeyRequired

(***************************************************************************)
(* Sync: the aggregator                                                    *)
(***************************************************************************)
SyncReturned == lastSync.op = "sync"

Secrets == lastSync.cfg.Secrets

\* the loop reached entry i, and what became of it
Reached(i) == i \in DOMAIN lastSync.trace

Status(i) == lastSync.trace[i]

\* the record entry i names, as the path holds it
DataOf(i) == kv[Secrets[i].KVPath].data

\* the transit key name sync resolves from the environment and the config
SyncKey ==
    IF GetEncryptionKey("", lastSync.environ) # ""
    THEN GetEncryptionKey("", lastSync.environ)
    ELSE lastSync.cfg.Transit.Key

\* the entries that resolved, in declaration order
Resolved ==
    SelectSeq([i \in DOMAIN lastSync.trace |-> i], LAMBDA i : Status(i) = "resolved")

\* the plaintext of a resolved entry: the opened ciphertext, or the value field
PlaintextOf(i) ==
    IF "ciphertext" \in DOMAIN DataOf(i) /\ HasPrefix(DataOf(i)["ciphertext"], "vault:v")
    THEN TransitDecrypt(SyncKey, DataOf(i)["ciphertext"], TRUE).plaintext
    ELSE DataOf(i)["value"]

\* the loop went on after entry i
WentOn(i) == i = Len(Secrets) \/ Reached(i + 1)

\* C16 (a): when the fetch of a required entry fails, sync returns an error
\* and the output file keeps its prior content; (b) when the fetch of an
\* optional entry fails the loop goes on, and when every other entry
\* resolves, generation succeeds (unless the file cannot be written) with
\* the lines of the other entries only.
C16_FetchFailureByRequirement ==
    SyncReturned =>
        \A i \in DOMAIN lastSync.trace :
            Status(i) = "fetch-failed" =>
                IF Secrets[i].Required
                THEN lastSync.err # "" /\ outFile = InitialFile
                ELSE /\ WentOn(i)
                     /\ (\A j \in (DOMAIN Secrets) \ {i} : Reached(j) /\ Status(j) = "resolved") =>
                           /\ lastSync.err \in {"", "write output file"}
                           /\ lastSync.err = "" =>
                                 outFile = FileContent([k \in DOMAIN Resolved |->
                                     Secrets[Resolved[k]].EnvVar \o "=" \o PlaintextOf(Resolved[k])])

\* C16 witness: the optional first entry could not be fetched and the file
\* was written with the line of the second entry alone
C16_Witness ==
    /\ SyncReturned /\ lastSync.err = "" /\ ~lastSync.crashed
    /\ Len(Secrets) = 2
    /\ Status(1) = "fetch-failed" /\ ~Secrets[1].Required
    /\ Status(2) = "resolved"
    /\ outFile = Secrets[2].EnvVar \o "=new-key\n"

\* C12: sync writes no stored ciphertext as a plaintext: the line of a
\* resolved entry never carries a value of the record that has the
\* ciphertext prefix.
\* Violated: the record {"value": "vault:v1:k1:new-key"} resolves by its
\* "value" field and the ciphertext is written to the file.
C12_NoCiphertextWritten ==
    (SyncReturned /\ lastSync.err = "" /\ ~lastSync.crashed) =>
        \A k \in DOMAIN Resolved :
            \A f \in EncryptedFields(DataOf(Resolved[k])) :
                lastSync.envLines[k] #
                    Secrets[Resolved[k]].EnvVar \o "=" \o DataOf(Resolved[k])[f]

\* the fetch of entry i was served
Fetched(i) == Reached(i) /\ Status(i) \notin {"invalid", "fetch-failed"}

\* entry i did not resolve, and the run went as its required flag says
FailedByRequirement(i) ==
    /\ Status(i) \notin {"resolved", "panic"}
    /\ IF Secrets[i].Required THEN lastSync.err # "" /\ outFile = InitialFile
       ELSE WentOn(i)

\* C17: an entry whose record has more than one field is never resolved,
\* whatever the fields are named: optional, it is skipped and the loop goes
\* on; required, sync returns an error.
\* Violated: {"DB_HOST": "new-key", "value": "new-key"} resolves by "value".
C17_MultiFieldNotResolved ==
    SyncReturned =>
        \A i \in DOMAIN lastSync.trace :
            (Fetched(i) /\ Cardinality(DOMAIN DataOf(i)) > 1) => FailedByRequirement(i)

\* no key name from the environment or the config, or one that does not open
\* the ciphertext
KeyMissingOrWrong(i) ==
    \/ SyncKey = ""
    \/ TransitDecrypt(SyncKey, DataOf(i)["ciphertext"], TRUE).err # ""

\* C18: for an entry whose record is an encrypted singleton, when no key name
\* is available (none in the environment, none in the config, the config
\* without transit section included) or the decrypt fails, an optional entry
\* is skipped and the loop goes on, a required one makes sync return an
\* error, and the process does not crash.
\* Violated: with no transit section the read of cfg.Transit.Key ends the
\* process.
C18_EncryptedSingletonWithoutKey ==
    SyncReturned =>
        \A i \in DOMAIN lastSync.trace :
            (/\ Fetched(i)
             /\ IsEncryptedSingleValue(DataOf(i))
             /\ KeyMissingOrWrong(i)) => FailedByRequirement(i)

\* C19: an optional entry that fails (fetch, key, decrypt or shape) never
\* keeps a later entry from being processed.
\* Violated: an optional entry on an encrypted singleton, under a config
\* without transit section, ends the process before the next entry.
C19_OptionalFailureGoesOn ==
    SyncReturned =>
        \A i \in DOMAIN lastSync.trace :
            (Status(i) \notin {"resolved", "invalid"} /\ ~Secrets[i].Required) => WentOn(i)

\* C20: when sync succeeds the file holds exactly one ENV_VAR=value line per
\* resolved entry, in the order of the config, and none for the others.
C20_LinesInDeclarationOrder ==
    (SyncReturned /\ lastSync.err = "" /\ ~lastSync.crashed) =>
        outFile = FileContent([k \in DOMAIN Resolved |->
                      Secrets[Resolved[k]].EnvVar \o "=" \o PlaintextOf(Resolved[k])])

\* C20 witness: two entries resolved, B_SECRET declared before A_SECRET, and
\* the file lists them in that order
C20_Witness ==
    /\ SyncReturned /\ lastSync.err = "" /\ ~lastSync.crashed
    /\ Len(Secrets) = 2 /\ Len(Resolved) = 2
    /\ Secrets[1].EnvVar = "B_SECRET" /\ Secrets[2].EnvVar = "A_SECRET"
    /\ outFile = "B_SECRET=new-key\nA_SECRET=new-key\n"

(***************************************************************************)
(* Encryption key and TRANSIT                                              *)
(***************************************************************************)
\* TRANSIT is set to one of the disabling values
TransitDisabled(environ) ==
    ToLower(environ.TRANSIT) \in {"false", "0", "no", "off", "disable", "disabled"}

\* C22: when TRANSIT is explicitly disabled, put makes no encrypt call and
\* writes the supplied value as plaintext, even if a key is given by
\* --encryption-key or ENCRYPTION_KEY.
\* Violated: ENCRYPTION_KEY=k1 TRANSIT=false put --value new-key encrypts
\* under k1 and stores {"ciphertext": "vault:v1:k1:new-key"}.
C22_TransitFalseDisablesEncryption ==
    (PutReturned /\ TransitDisabled(lastPut.environ)) =>
        /\ \A i \in DOMAIN lastPut.calls : lastPut.calls[i].call # "TransitEncrypt"
        /\ (FullValuePut /\ Wrote) =>
              lastPut.finalData = [k \in {"value"} |-> SuppliedValue]

(***************************************************************************)
(* The functions of pkg/config and pkg/vault on their own: every           *)
(* environment of the bounded sets, one call.                              *)
(***************************************************************************)
InitConfig ==
    /\ InitStore
    /\ lastRun = NoRun
    /\ lastResolve = NoResolve
    /\ twin = NoTwin
    /\ procs = IdleProcs
    /\ fieldsPut = EmptyMap
    /\ \/ \E environ \in KeyEnvirons :
            configCall = ConfigCall("GetEncryptionKey", environ, NoCall.env, NoCall.net)
       \/ \E env \in VaultEnvirons, net \in AuthAnswers :
            configCall = ConfigCall("NewClient", PlainEnviron, env, net)

DeriveKey ==
    /\ configCall.fn = "GetEncryptionKey"
    /\ ~configCall.done
    /\ configCall' = [configCall EXCEPT
                        !.done = TRUE,
                        !.key = GetEncryptionKey(configCall.environ.flag, configCall.environ)]
    /\ UNCHANGED <<stored, lastPut, lastGet, nOps, syncVars, fieldsPut, procs, twin, lastResolve, lastRun>>

Connect ==
    /\ configCall.fn = "NewClient"
    /\ ~configCall.done
    /\ configCall' = [configCall EXCEPT
                        !.done = TRUE,
                        !.client = NewClient(GetVaultConfigFromEnv(configCall.env),
                                             configCall.net)]
    /\ UNCHANGED <<stored, lastPut, lastGet, nOps, syncVars, fieldsPut, procs, twin, lastResolve, lastRun>>

NextConfig == DeriveKey \/ Connect

SpecConfig == InitConfig /\ [][NextConfig]_vars

KeyDerived == configCall.fn = "GetEncryptionKey" /\ configCall.done

\* the spellings of TRANSIT that enable the default key
EnablingSpellings ==
    {"true", "TRUE", "True", "tRuE", "1", "yes", "YES", "Yes", "on", "ON", "On",
     "enable", "ENABLE", "Enable", "enabled", "ENABLED", "eNaBlEd"}

(***************************************************************************)
(* C23  The key GetEncryptionKey returns is the flag value if that is not  *)
(* empty, else ENCRYPTION_KEY if that is not empty, else "app-secrets"     *)
(* exactly when TRANSIT is one of true/1/yes/on/enable/enabled in any      *)
(* letter case, else the empty string.                                     *)
(***************************************************************************)
C23_KeyDerivation ==
    KeyDerived =>
        configCall.key =
            IF configCall.environ.flag # "" THEN configCall.environ.flag
            ELSE IF configCall.environ.ENCRYPTION_KEY # ""
                 THEN configCall.environ.ENCRYPTION_KEY
                 ELSE IF configCall.environ.TRANSIT \in EnablingSpellings
                      THEN "app-secrets" ELSE ""

\* the default key from a TRANSIT written in capitals, nothing else set
C23_Witness ==
    /\ KeyDerived
    /\ configCall.environ.flag = ""
    /\ configCall.environ.ENCRYPTION_KEY = ""
    /\ configCall.environ.TRANSIT = "YES"
    /\ configCall.key = "app-secrets"

Connected == configCall.fn = "NewClient" /\ configCall.done

\* the authentication methods in their order of detection
AuthMethods == <<"token", "approle", "github", "kubernetes">>

\* the credentials of a method are all set in the environment
CredentialsPresent(method, env) ==
    CASE method = "token" -> env.VAULT_TOKEN # ""
      [] method = "approle" -> env.VAULT_ROLE_ID # "" /\ env.VAULT_SECRET_ID # ""
      [] method = "github" -> env.VAULT_GITHUB_TOKEN # ""
      [] method = "kubernetes" -> env.VAULT_K8S_ROLE # ""
      [] OTHER -> FALSE

\* the client was refused by validation, with no request sent to the backend
FailedInValidation ==
    /\ configCall.client.err # ""
    /\ configCall.client.stage = "validate"
    /\ configCall.client.calls = <<>>

\* C24 as stated, for a method that is set: the method is the value of
\* VAULT_AUTH_METHOD, letter for letter
C24_MethodUsedAsGiven ==
    (Connected /\ configCall.env.VAULT_AUTH_METHOD # "") =>
        configCall.client.method = configCall.env.VAULT_AUTH_METHOD

(***************************************************************************)
(* C24  With VAULT_AUTH_METHOD unset and an address, the method is the     *)
(* first of token, approle, github, kubernetes whose credentials are set;  *)
(* with VAULT_AUTH_METHOD set the method is that value in lower case,      *)
(* whatever other credentials are set; and an empty VAULT_ADDR or missing  *)
(* credentials of the selected method fail in validation, before any       *)
(* request to the backend.                                                 *)
(***************************************************************************)
C24_AuthMethodSelection ==
    Connected =>
        /\ (configCall.env.VAULT_AUTH_METHOD = "" /\ configCall.env.VAULT_ADDR # "") =>
              \A i \in DOMAIN AuthMethods :
                 ( /\ CredentialsPresent(AuthMethods[i], configCall.env)
                   /\ \A j \in 1..(i - 1) : ~CredentialsPresent(AuthMethods[j], configCall.env) )
                 => configCall.client.method = AuthMethods[i]
        /\ configCall.env.VAULT_AUTH_METHOD # "" =>
              configCall.client.method = ToLower(configCall.env.VAULT_AUTH_METHOD)
        /\ ( \/ configCall.env.VAULT_ADDR = ""
             \/ ~CredentialsPresent(configCall.client.method, configCall.env) )
           => FailedInValidation
        /\ configCall.client.calls # <<>> => configCall.client.stage # "validate"

\* no token, AppRole and GitHub credentials both set, no method named: the
\* client logs in with AppRole
C24_Witness ==
    /\ Connected
    /\ configCall.env.VAULT_AUTH_METHOD = ""
    /\ configCall.env.VAULT_TOKEN = ""
    /\ configCall.env.VAULT_GITHUB_TOKEN # ""
    /\ configCall.client.method = "approle"
    /\ configCall.client.err = ""
    /\ \E i \in DOMAIN configCall.client.calls :
          configCall.client.calls[i].arg = "auth/approle/login"

\* the values get handed to the transit engine for decryption
DecryptedByGet ==
    {lastGet.calls[i].arg : i \in {j \in DOMAIN lastGet.calls :
                                      lastGet.calls[j].call = "TransitDecrypt"}}

\* the fetched record holds no ciphertext, and a field named "ciphertext"
PlaintextWithCiphertextField ==
    /\ lastGet.before.exists
    /\ lastGet.fault = "none"
    /\ "ciphertext" \in DOMAIN GotData
    /\ \A k \in DOMAIN GotData : ~HasPrefix(GotData[k], "vault:v")

\* C27: every value get hands to the transit engine for decryption starts
\* with "vault:v", and a record without any such value that has a field named
\* "ciphertext" is read as plaintext: no decrypt call, no demand for a key.
\* Violated: on {"ciphertext": "new-key"}, written by put --key ciphertext
\* --value new-key without encryption, get without a key fails with the
\* key-required error, and get with key k1 sends new-key to the engine.
C27_DecryptOnlyCiphertext ==
    GetReturned =>
        /\ \A c \in DecryptedByGet : HasPrefix(c, "vault:v")
        /\ PlaintextWithCiphertextField =>
              /\ DecryptedByGet = {}
              /\ lastGet.err # KeyRequired

(***************************************************************************)
(* Field puts only: from the absent path, put --key invocations without an *)
(* encryption key, every fetch succeeding.  fieldsPut holds the field      *)
(* names of the puts that returned success with their latest values.       *)
(***************************************************************************)
InitFieldPuts ==
    /\ InitStore
    /\ lastRun = NoRun
    /\ lastResolve = NoResolve
    /\ twin = NoTwin
    /\ procs = IdleProcs
    /\ configCall = NoCall
    /\ fieldsPut = EmptyMap

FieldPutOptions == {o \in PutOptions : o.Key # "" /\ o.FromEnv = "" /\ o.FromFile = ""}

FieldPut ==
    \E opts \in FieldPutOptions :
        /\ nOps < MaxOps
        /\ PutCommandAccepts(opts)
        /\ \E in \in PutInputs(opts, PlainEnviron) :
            LET out == AppPut(stored, opts, PlainEnviron, in)
            IN  /\ in.fault = "none"
                /\ stored' = out.rec
                /\ lastPut' = [op |-> "put", opts |-> opts, environ |-> PlainEnviron,
                               fault |-> in.fault, stdin |-> in.stdin, before |-> stored,
                               err |-> out.err, calls |-> out.calls,
                               finalData |-> out.finalData]
                /\ fieldsPut' = IF out.err # "" THEN fieldsPut
                                ELSE MergeData(fieldsPut,
                                        [k \in {opts.Key} |-> PutSecretValue(opts, in.stdin)])
        /\ nOps' = nOps + 1
        /\ UNCHANGED <<lastGet, syncVars, configCall, procs, twin, lastResolve, lastRun>>

SpecFieldPuts == InitFieldPuts /\ [][FieldPut]_vars

\* C25: after any sequence of successful field puts from the absent path,
\* without encryption and with every fetch succeeding, the record holds
\* exactly the field names put so far, each with its most recent value.
\* Violated: put --key value --value new-key, then put --key DB_HOST --value
\* new-key leaves {"DB_HOST": "new-key"}: the field "value" is lost.
C25_FieldPutsAccumulate ==
    stored = IF fieldsPut = EmptyMap THEN Absent ELSE Record(fieldsPut)

\* the same, for field names and values that no shape test takes for a
\* sentinel field or a ciphertext
C25_OrdinaryFieldsAccumulate ==
    (\A k \in DOMAIN fieldsPut : k # "value" /\ ~HasPrefix(fieldsPut[k], "vault:v")) =>
        C25_FieldPutsAccumulate

(***************************************************************************)
(* Two put processes on one path.  App.Put reads the record (app.go:51)    *)
(* and writes it (app.go:130) in two backend calls with nothing held in    *)
(* between, so the steps of two processes interleave at those calls.       *)
(***************************************************************************)
\* the records the path can hold when the processes start
StartRecords ==
    {Absent, Record([k \in {"DB_HOST"} |-> "old"]),
     Record([k \in {"DB_HOST", "API_KEY"} |-> "old"])}

InitConcurrent ==
    /\ stored \in StartRecords
    /\ lastPut = NoPut
    /\ lastGet = NoGet
    /\ nOps = 0
    /\ kv = [p \in Paths |-> Absent]
    /\ lastSync = NoSync
    /\ outFile = InitialFile
    /\ configCall = NoCall
    /\ fieldsPut = EmptyMap
    /\ procs = IdleProcs
    /\ twin = NoTwin
    /\ lastResolve = NoResolve
    /\ lastRun = NoRun

\* the record as the process's KVGet returned it
FetchedRecord(rec, fault) == IF fault = "none" THEN rec ELSE Absent

\* WriteBack gone wrong: the write merges into the record held at the time
WriteBack_MergesCurrent(current, out) ==
    IF out.err = "" THEN Record(MergeData(current.data, out.finalData)) ELSE current

\* the record after the process's KVPut: the final data, whatever is there
WriteBack(current, out) ==
    IF out.err = "" THEN out.rec ELSE current

\* first half of App.Put: the read of the existing record
PutFetch(p) ==
    \E opts \in {o \in FieldPutOptions : o.Value = "new-key"}, fault \in FetchFaults :
        /\ procs[p].pc = "start"
        /\ procs' = [procs EXCEPT ![p] =
                        [pc |-> "fetched", opts |-> opts,
                         fetched |-> FetchedRecord(stored, fault),
                         others |-> {q \in Procs : procs[q].pc = "done"},
                         err |-> ""]]
        /\ UNCHANGED <<stored, lastPut, lastGet, nOps, syncVars, configCall, fieldsPut, twin, lastResolve, lastRun>>

\* second half of App.Put: the final data from what was read, and the write
PutWrite(p) ==
    \E writeOk \in BOOLEAN :
        LET in == [fault |-> "none", stdin |-> "", order |-> <<>>, failAt |-> 0,
                   writeOk |-> writeOk]
            out == AppPut(procs[p].fetched, procs[p].opts, PlainEnviron, in)
        IN  /\ procs[p].pc = "fetched"
            /\ stored' = WriteBack(stored, out)
            /\ procs' = [procs EXCEPT ![p].pc = "done", ![p].err = out.err]
            /\ UNCHANGED <<lastPut, lastGet, nOps, syncVars, configCall, fieldsPut, twin, lastResolve, lastRun>>

NextConcurrent == \E p \in Procs : PutFetch(p) \/ PutWrite(p)

SpecConcurrent == InitConcurrent /\ [][NextConcurrent]_vars

\* both processes returned success, for two different fields, and each read
\* the record before the other wrote it
BothReadFirst ==
    /\ \A p \in Procs : procs[p].pc = "done" /\ procs[p].err = "" /\ procs[p].others = {}
    /\ procs["p1"].opts.Key # procs["p2"].opts.Key

\* the record lacks the field the process put, or holds another value for it
UpdateLost(p) ==
    \/ procs[p].opts.Key \notin DOMAIN stored.data
    \/ stored.data[procs[p].opts.Key] # procs[p].opts.Value

(***************************************************************************)
(* C26  Two puts of different fields on one path, both reading the record  *)
(* before either writes it, both successful: the record that is left has   *)
(* the update of one process and has lost the update of the other.         *)
(***************************************************************************)
C26_ConcurrentPutsLoseAnUpdate ==
    BothReadFirst =>
        /\ \E p \in Procs : UpdateLost(p)
        /\ \E p \in Procs : ~UpdateLost(p)

\* a record of two fields, two puts of two new fields, and a record left
\* that lacks one of them
C26_Witness ==
    /\ BothReadFirst
    /\ \A p \in Procs : procs[p].fetched = Record([k \in {"DB_HOST", "API_KEY"} |-> "old"])
    /\ \E p \in Procs : procs[p].opts.Key \notin DOMAIN stored.data

(***************************************************************************)
(* The same invocations in two worlds: every put and the get run once with *)
(* no encryption key and once with the key k1, on a path of their own,     *)
(* every backend call succeeding.                                          *)
(***************************************************************************)
KeyedEnviron == [flag |-> "k1", ENCRYPTION_KEY |-> "", TRANSIT |-> ""]

InitTwin ==
    /\ InitStore
    /\ lastRun = NoRun
    /\ lastResolve = NoResolve
    /\ configCall = NoCall
    /\ fieldsPut = EmptyMap
    /\ procs = IdleProcs
    /\ twin = NoTwin

\* the answers of an outside world in which nothing fails
Unhindered(in) == in.fault = "none" /\ in.failAt = 0

TwinPut ==
    \E opts \in PutOptions :
        /\ ~twin.got
        /\ nOps < MaxOps
        /\ PutCommandAccepts(opts)
        /\ \E in \in PutInputs(opts, KeyedEnviron) :
            LET plain == AppPut(twin.plain, opts, PlainEnviron, in)
                enc == AppPut(twin.enc, opts, KeyedEnviron, in)
            IN  /\ Unhindered(in) /\ in.writeOk
                /\ twin' = [twin EXCEPT !.plain = plain.rec, !.enc = enc.rec]
        /\ nOps' = nOps + 1
        /\ UNCHANGED <<stored, lastPut, lastGet, syncVars, configCall, fieldsPut, procs, lastResolve, lastRun>>

TwinGet ==
    \E opts \in GetOptions :
        /\ ~twin.got
        /\ \E inPlain \in GetInputs(twin.plain, PlainEnviron),
              inEnc \in GetInputs(twin.enc, KeyedEnviron) :
            LET plain == AppGet(twin.plain, opts, PlainEnviron, inPlain)
                enc == AppGet(twin.enc, opts, KeyedEnviron, inEnc)
            IN  /\ Unhindered(inPlain) /\ Unhindered(inEnc)
                /\ twin' = [twin EXCEPT !.got = TRUE, !.opts = opts,
                              !.plainOut = [err |-> plain.err, stdout |-> plain.stdout],
                              !.encOut = [err |-> enc.err, stdout |-> enc.stdout]]
        /\ UNCHANGED <<stored, lastPut, lastGet, nOps, syncVars, configCall, fieldsPut, procs, lastResolve, lastRun>>

NextTwin == TwinPut \/ TwinGet

SpecTwin == InitTwin /\ [][NextTwin]_vars

\* C28: for any sequence of puts on an absent path and any get flags, the get
\* prints the same text when every invocation ran with the key k1 as when
\* every invocation ran without encryption.
\* Violated: after put --key DB_HOST --value new-key, get prints new-key in
\* the plaintext world and the line DB_HOST=new-key in the encrypted one.
C28_GetOutputIndependentOfMode ==
    twin.got => twin.plainOut.stdout = twin.encOut.stdout

\* the case of one field named by the caller, outside the sentinel names,
\* with a value that is no ciphertext: the difference is there too
C28_OneNamedFieldSameOutput ==
    (/\ twin.got
     /\ twin.opts.Key = ""
     /\ \E k \in FieldNames \ {"value", "ciphertext"} :
           twin.plain.exists /\ DOMAIN twin.plain.data = {k}
                             /\ ~HasPrefix(twin.plain.data[k], "vault:v"))
    => twin.plainOut.stdout = twin.encOut.stdout

(***************************************************************************)
(* One record resolved both ways: puts fill the paths, then the record at  *)
(* one path is resolved by loadInlineSecrets for --inject A_SECRET=path    *)
(* and by loadSecretsFromConfig for a required entry of the same path and  *)
(* variable, with the same key and the same answer of the backend.         *)
(***************************************************************************)
ResolveSeedPut ==
    /\ lastResolve.op = "none"
    /\ SeedPut

Resolve ==
    \E path \in Paths, environ \in Environs, transit \in TransitSections,
       fault \in FetchFaults :
        /\ lastResolve.op = "none"
        /\ lastResolve' =
              [op |-> "resolve", path |-> path, environ |-> environ, transit |-> transit,
               fault |-> fault,
               inject |-> loadInlineSecrets(<<"A_SECRET=" \o path>>, kv,
                                            GetEncryptionKey(environ.flag, environ),
                                            <<fault>>),
               config |-> loadSecretsFromConfig(
                              [Transit |-> transit,
                               Secrets |-> <<[KVPath |-> path, EnvVar |-> "A_SECRET",
                                              Required |-> TRUE]>>], kv,
                              GetEncryptionKey(environ.flag, environ), <<fault>>)]
        /\ UNCHANGED <<stored, lastPut, lastGet, nOps, syncVars, configCall, fieldsPut,
                       procs, twin, lastRun>>

NextResolve == ResolveSeedPut \/ Resolve

SpecResolve == Init /\ [][NextResolve]_vars

\* the config names no transit key of its own, so both ways have the one key
SameKeyBothWays ==
    /\ lastResolve.op = "resolve"
    /\ lastResolve.transit = [present |-> TRUE, Key |-> ""]

Failed(loaded) == loaded.err # "" \/ loaded.crashed

\* C29: for every record at a path and the same encryption key, --inject
\* A_SECRET=path and a required config entry for the path and A_SECRET either
\* both fail or both bind A_SECRET to the same value.
\* Violated: on {"DB_HOST": "new-key"} the inject binds A_SECRET=new-key and
\* the required entry fails with "no valid data found".
C29_InjectAndRequiredEntryAlike ==
    SameKeyBothWays =>
        \/ Failed(lastResolve.inject) /\ Failed(lastResolve.config)
        \/ /\ ~Failed(lastResolve.inject) /\ ~Failed(lastResolve.config)
           /\ lastResolve.inject.envVars = lastResolve.config.envVars

\* the same for the records that are not one field under another name than
\* the sentinels
C29_AlikeButForOneNamedField ==
    (/\ SameKeyBothWays
     /\ ~(/\ Cardinality(DOMAIN kv[lastResolve.path].data) = 1
          /\ DOMAIN kv[lastResolve.path].data \cap {"value", "ciphertext"} = {}))
    => C29_InjectAndRequiredEntryAlike

(***************************************************************************)
(* One run invocation over paths that earlier puts have filled.            *)
(***************************************************************************)
InitRun ==
    /\ stored = Absent
    /\ lastPut = NoPut
    /\ lastGet = NoGet
    /\ nOps = 0
    /\ kv \in {[p \in Paths |-> IF p = "app/a" THEN a ELSE b] :
                  a \in RunRecordsA, b \in RunRecordsB}
    /\ lastSync = NoSync
    /\ outFile = InitialFile
    /\ configCall = NoCall
    /\ fieldsPut = EmptyMap
    /\ procs = IdleProcs
    /\ twin = NoTwin
    /\ lastResolve = NoResolve
    /\ lastRun = NoRun

\* one run invocation, from the command's action to the end of the process
Run ==
    \E inv \in RunInvocations, environ \in RunEnvirons :
        /\ lastRun.op = "none"
        /\ \E world \in RunWorlds(inv) :
            LET opts == RunOptions(inv, world.defaultExists)
                usage == RunCommandError(inv, world.defaultExists)
                run == RunResolve(opts, kv, GetEncryptionKey(environ.flag, environ), world)
            IN  \E child \in IF usage = "" /\ ~Returned(run) /\ ~opts.DryRun
                             THEN ChildOutcomes ELSE {"exit-0"} :
                    lastRun' = [op |-> "run", inv |-> inv, environ |-> environ,
                                cfg |-> IF opts.ConfigFile # "" /\ world.configOk
                                        THEN world.cfg ELSE NoRun.cfg,
                                opts |-> opts, usage |-> usage,
                                out |-> IF usage # "" THEN NoRun.out
                                        ELSE RunFinish(opts, run, child)]
        /\ UNCHANGED <<stored, lastPut, lastGet, nOps, syncVars, configCall, fieldsPut,
                       procs, twin, lastResolve>>

SpecRun == InitRun /\ [][Run]_vars

RunReturned == lastRun.op = "run" /\ lastRun.usage = ""

ChildExecuted == RunReturned /\ lastRun.out.executions > 0



\* the variables of the vault-env process's own environment
InheritedVars ==
    [k \in {"A_SECRET", "HOME", "OPTS"} |->
        CASE k = "A_SECRET" -> "inherited" [] k = "HOME" -> "/root" [] OTHER -> "a=b"]

\* the sources of the child's environment, lowest priority first; the
\* process environment is one of them unless --preserve-env=false
RunSources ==
    << IF lastRun.opts.PreserveEnv THEN InheritedVars ELSE EmptyMap,
       lastRun.out.fromFile, lastRun.out.fromConfig, lastRun.out.fromInject >>

\* the sources that define the name
DefinedBy(name) == {i \in DOMAIN RunSources : name \in DOMAIN RunSources[i]}

\* the highest of a non-empty set of priorities
Highest(S) == CHOOSE i \in S : \A j \in S : j <= i

(***************************************************************************)
(* C21  In the environment the child is executed with, every name that a   *)
(* source defines has the value of the highest-priority source defining    *)
(* it, in the order process environment < --env-file < config entries <    *)
(* --inject, and the environment has no other names; several sources       *)
(* defining a name is no error.                                            *)
(***************************************************************************)
C21_RunSourcePrecedence ==
    ChildExecuted =>
        /\ DOMAIN lastRun.out.childEnv = UNION {DOMAIN RunSources[i] : i \in DOMAIN RunSources}
        /\ \A name \in DOMAIN lastRun.out.childEnv :
              lastRun.out.childEnv[name] = RunSources[Highest(DefinedBy(name))][name]

\* A_SECRET is defined by all four sources, each with another value, and the
\* child gets the value of the last --inject item
C21_Witness ==
    /\ ChildExecuted
    /\ \A i \in DOMAIN RunSources : "A_SECRET" \in DOMAIN RunSources[i]
    /\ RunSources[2]["A_SECRET"] = "from-file"
    /\ RunSources[3]["A_SECRET"] = "v1"
    /\ RunSources[4]["A_SECRET"] = "v2"
    /\ lastRun.out.childEnv["A_SECRET"] = "v2"
    /\ lastRun.out.childEnv["B_SECRET"] = "from-file"
    /\ lastRun.out.childEnv["HOME"] = "/root"

\* the config file was read, so its entries were gone through
ConfigRead == RunReturned /\ lastRun.cfg # NoRun.cfg

\* the key name the config loader has for entry decryption
RunConfigKey ==
    NonEmpty(<<GetEncryptionKey(lastRun.environ.flag, lastRun.environ),
               IF lastRun.cfg.Transit.present THEN lastRun.cfg.Transit.Key ELSE "">>)

\* config entry i was reached and is required, and it failed: the fetch, the
\* key, the decryption or the shape of the record
RequiredEntryFailed(i) ==
    /\ i <= Len(lastRun.out.configTrace)
    /\ lastRun.cfg.Secrets[i].Required
    /\ \/ lastRun.out.configTrace[i] \in
             {"fetch-failed", "no-key", "decrypt-failed", "multi-value", "no-data"}
       \/ lastRun.out.configTrace[i] = "panic" /\ RunConfigKey = ""

\* --inject item i was reached and failed
InjectFailed(i) ==
    /\ i <= Len(lastRun.out.injectTrace)
    /\ lastRun.out.injectTrace[i] # "resolved"

\* the env-file, every config entry and every --inject item were processed,
\* none with a fatal error
FullyResolved ==
    /\ lastRun.opts.EnvFile # "" => lastRun.opts.EnvFile \in DOMAIN RunEnvFiles
    /\ lastRun.opts.ConfigFile # "" =>
          /\ ConfigRead
          /\ Len(lastRun.out.configTrace) = Len(lastRun.cfg.Secrets)
          /\ \A i \in DOMAIN lastRun.cfg.Secrets :
                /\ lastRun.out.configTrace[i] # "panic"
                /\ lastRun.cfg.Secrets[i].Required =>
                      lastRun.out.configTrace[i] \in {"resolved", "invalid"}
    /\ Len(lastRun.out.injectTrace) = Len(lastRun.opts.InjectSecrets)
    /\ \A i \in DOMAIN lastRun.out.injectTrace : lastRun.out.injectTrace[i] = "resolved"

\* C30: the child is executed at most once and only after the env-file,
\* every config entry and every --inject item were processed without a fatal
\* error; a failure of a required config entry or of an --inject item makes
\* run return an error without executing the child; with --dry-run the child
\* is never executed.
\* Violated: a required entry whose record is {"ciphertext": "vault:v1:k1:s1"},
\* no key anywhere and a config without transit section: the process dies in
\* loadSecretsFromConfig and no error is returned.
C30_ChildOnlyAfterResolution ==
    RunReturned =>
        /\ lastRun.out.executions <= 1
        /\ ChildExecuted => FullyResolved
        /\ (\/ \E i \in DOMAIN lastRun.cfg.Secrets : RequiredEntryFailed(i)
            \/ \E i \in DOMAIN lastRun.opts.InjectSecrets : InjectFailed(i))
           => (lastRun.out.err # "" /\ lastRun.out.executions = 0)
        /\ lastRun.opts.DryRun => lastRun.out.executions = 0

\* the same with the death of the process counted as a failed run: the child
\* is not executed then either
C30_NoChildAfterFailure ==
    RunReturned =>
        /\ lastRun.out.executions <= 1
        /\ ChildExecuted => FullyResolved
        /\ (\/ \E i \in DOMAIN lastRun.cfg.Secrets : RequiredEntryFailed(i)
            \/ \E i \in DOMAIN lastRun.opts.InjectSecrets : InjectFailed(i))
           => (Returned(lastRun.out) /\ lastRun.out.executions = 0)
        /\ lastRun.opts.DryRun => lastRun.out.executions = 0

====
